---- MODULE Spec2Model ----
(***************************************************************************)
(* mongoose-reference-check: the ReferenceCheck plugin (src/src/index.ts,  *)
(* and its JavaScript predecessor src/index.js) as a state machine over a  *)
(* document store.                                                          *)
(*                                                                          *)
(* The store, the schema catalog and the operation pipeline belong to the  *)
(* surrounding framework; they are modelled by what the plugin asks of     *)
(* them (exists, countDocuments, findOne, aggregate, modelNames, get,      *)
(* getUpdate, next).                                                       *)
(***************************************************************************)
EXTENDS Integers, Sequences, FiniteSets

(***************************************************************************)
(* Bounds of the model.                                                    *)
(***************************************************************************)
\* identifiers are 1..MaxId in every collection
MaxId == 2
\* longest array value of a reference field held by a document or a payload
MaxLen == 2
\* documents in the whole store (saves of new documents stop there)
MaxDocs == 2
\* documents in the store the plugin is attached to (SpecOptions)
MaxInitDocs == 3
\* longest array value handed to validateReference in the validator's own
\* specification (SpecValidator)
MaxArgLen == 3
\* identifiers of the validator's own specification are 1..MaxArgId
MaxArgId == 3

Ids == 1..MaxId

(***************************************************************************)
(* Values of a reference field: Types.ObjectId | Types.ObjectId[] | null.  *)
(* One shape for the three, so that any two values can be compared.        *)
(***************************************************************************)
Null == [tag |-> "null", ids |-> << >>]

Scalar(i) == [tag |-> "id", ids |-> <<i>>]

Arr(s) == [tag |-> "array", ids |-> s]

\* the value of an array-of-subdocuments path whose nested schema holds a
\* reference: the subdocuments, each given by the identifier it holds
Subdocs(s) == [tag |-> "subdocs", ids |-> s]

\* sequences over S of length at most n
SeqsUpTo(S, n) == UNION {[1..k -> S] : k \in 0..n}

\* what a path of the given type can hold
ValuesOf(isArray, idSet, maxLen) ==
  IF isArray THEN {Null} \cup {Arr(s) : s \in SeqsUpTo(idSet, maxLen)}
  ELSE {Null} \cup {Scalar(i) : i \in idSet}

\* JavaScript's !value for these values: null and undefined are falsy, an
\* ObjectId and an array (an empty one too) are truthy
Falsy(value) == value.tag = "null"

Range(s) == {s[i] : i \in DOMAIN s}

(***************************************************************************)
(* Schemas.  A path is one entry of schema.paths: its name, options.ref    *)
(* ("" when the option is not set), whether it is a Schema.Types.Array,    *)
(* and the paths of its nested schema (path.schema; empty when it has      *)
(* none).                                                                  *)
(***************************************************************************)
Path(field, ref, isArray, sub) ==
  [field |-> field, ref |-> ref, isArray |-> isArray, sub |-> sub]

IdPath == Path("_id", "", FALSE, << >>)

SubPath(field, ref) == [field |-> field, ref |-> ref]

\* the README's schemas: a Post names its author and its editor (Users), an
\* Article its tags (an array of Tags)
BlogCatalog ==
  << [name |-> "User", paths |-> <<IdPath>>],
     [name |-> "Post",
      paths |-> <<IdPath,
                  Path("author", "User", FALSE, << >>),
                  Path("editor", "User", FALSE, << >>)>>],
     [name |-> "Tag", paths |-> <<IdPath>>],
     [name |-> "Article",
      paths |-> <<IdPath, Path("tags", "Tag", TRUE, << >>)>>] >>

\* the scenario's schemas: User{_id}, Post{author: ref User}
UserPostCatalog ==
  << [name |-> "User", paths |-> <<IdPath>>],
     [name |-> "Post",
      paths |-> <<IdPath, Path("author", "User", FALSE, << >>)>>] >>

\* a User named by two other models, one registered before it and one
\* after: Comment{author: ref User}, User{_id}, Post{author: ref User}
ForumCatalog ==
  << [name |-> "Comment",
      paths |-> <<IdPath, Path("author", "User", FALSE, << >>)>>],
     [name |-> "User", paths |-> <<IdPath>>],
     [name |-> "Post",
      paths |-> <<IdPath, Path("author", "User", FALSE, << >>)>>] >>

\* a User named only from inside a nested schema:
\* Thread{replies: [{user: ref User}]}
ThreadCatalog ==
  << [name |-> "User", paths |-> <<IdPath>>],
     [name |-> "Thread",
      paths |-> <<IdPath,
                  Path("replies", "", TRUE, <<SubPath("user", "User")>>)>>] >>

ModelNames(cat) == [i \in DOMAIN cat |-> cat[i].name]

\* db.model(name).schema.paths
PathsOf(cat, name) ==
  cat[CHOOSE i \in DOMAIN cat : cat[i].name = name].paths

\* the fields of a document of the schema that the model keeps: every
\* declared path but _id
DocFields(paths) == {paths[i].field : i \in DOMAIN paths} \ {"_id"}

PathOfField(paths, field) ==
  CHOOSE i \in DOMAIN paths : paths[i].field = field

(***************************************************************************)
(* getRefFields                                                            *)
(***************************************************************************)
RefField(field, refTo) == [field |-> field, refTo |-> refTo]

\* the inner loop over path.schema.paths: one pair per nested path that
\* carries options.ref, under the outer field's name
\* mutant: a nested reference is emitted under the nested path's own name
RECURSIVE SubRefFields_nestedName(_, _, _)
SubRefFields_nestedName(field, sub, j) ==
  IF j > Len(sub) THEN << >>
  ELSE (IF sub[j].ref # "" THEN <<RefField(sub[j].field, sub[j].ref)>>
        ELSE << >>)
       \o SubRefFields_nestedName(field, sub, j + 1)
RECURSIVE SubRefFields(_, _, _)
SubRefFields(field, sub, j) ==
  IF j > Len(sub) THEN << >>
  ELSE (IF sub[j].ref # "" THEN <<RefField(field, sub[j].ref)>> ELSE << >>)
       \o SubRefFields(field, sub, j + 1)

\* what one path contributes: its own options.ref first, then the nested ones
PathRefFields(path) ==
  (IF path.ref # "" THEN <<RefField(path.field, path.ref)>> ELSE << >>)
  \o (IF path.isArray /\ Len(path.sub) > 0
      THEN SubRefFields(path.field, path.sub, 1)
      ELSE << >>)

RECURSIVE RefFieldsFrom(_, _)
RefFieldsFrom(paths, i) ==
  IF i > Len(paths) THEN << >>
  ELSE PathRefFields(paths[i]) \o RefFieldsFrom(paths, i + 1)

getRefFields(paths) == RefFieldsFrom(paths, 1)

(***************************************************************************)
(* The store: per model name, its documents in insertion order (the        *)
(* natural order findOne, updateOne and deleteOne resolve a query in).     *)
(* A document is [id, vals]; _id is unique within a collection.            *)
(***************************************************************************)
Doc(id, vals) == [id |-> id, vals |-> vals]

DocIds(coll) == {coll[i].id : i \in DOMAIN coll}

TotalDocs(st) ==
  LET RECURSIVE Sum(_)
      Sum(S) == IF S = {} THEN 0
                ELSE LET m == CHOOSE x \in S : TRUE
                     IN Len(st[m]) + Sum(S \ {m})
  IN Sum(DOMAIN st)

\* ObjectId.prototype.toString and the cast of a string back to an ObjectId
\* that a query on _id performs
toString(id) == [hex |-> id]

CastObjectId(str) == str.hex

\* [...new Set(values)]: the distinct elements, first occurrences in order
RECURSIVE Unique(_)
Unique(s) ==
  IF s = << >> THEN << >>
  ELSE LET init == Unique(SubSeq(s, 1, Len(s) - 1))
           last == s[Len(s)]
       IN IF last \in Range(init) THEN init ELSE Append(init, last)

\* model.countDocuments({ _id: { $in: values } })
countDocuments(coll, values) ==
  Cardinality({i \in DOMAIN coll :
                 coll[i].id \in {CastObjectId(v) : v \in Range(values)}})

\* mutant: every identifier is found
existsById_always(coll, id) == TRUE
\* model.exists({ _id: value }) !== null
existsById(coll, id) == \E i \in DOMAIN coll : coll[i].id = id

(***************************************************************************)
(* One call to the store, as the plugin issues it: which call, on which    *)
(* model, for which reference field(s), with which identifiers, and        *)
(* whether the store answered it (ok) or raised.                           *)
(***************************************************************************)
Lookup(call, model, fields, ids, ok) ==
  [call |-> call, model |-> model, fields |-> fields, ids |-> ids, ok |-> ok]

(***************************************************************************)
(* Errors, by what their message carries.                                  *)
(*   "ReferenceValidation": `Reference validation failed: The value        *)
(*       ${value} does not exist within ${refTo}`                          *)
(*   "ReferentialIntegrity": `Cannot delete record ${_id}: It is           *)
(*       referenced in ${modelName} model`                                 *)
(*   "Database": `Database error validating ${fieldName}: ${message}`,     *)
(*       the message being that of the error the store raised, which is    *)
(*       told by the model whose call raised it                            *)
(*   "Driver": the error the store raised, passed on as it is              *)
(***************************************************************************)
Err(type, field, value, model, id) ==
  [type |-> type, field |-> field, value |-> value, model |-> model, id |-> id]

NoError == Err("none", "", Null, "", 0)

\* mutant: the message names the value alone
ReferenceValidationError_noTarget(value, refTo) ==
  Err("ReferenceValidation", "", value, "", 0)

ReferenceValidationError(value, refTo) ==
  Err("ReferenceValidation", "", value, refTo, 0)

ReferentialIntegrityError(id, modelName) ==
  Err("ReferentialIntegrity", "", Null, modelName, id)

DriverError(modelName) == Err("Driver", "", Null, modelName, 0)

DatabaseError(fieldName, error) ==
  Err("Database", fieldName, Null, error.model, 0)

(***************************************************************************)
(* validateReference (TypeScript).  ret is "true", "false" or "throw";     *)
(* fails says whether the store raises on the lookup, if one is issued.    *)
(***************************************************************************)
Returned(ret, io) == [ret |-> ret, io |-> io]

Bool(b) == IF b THEN "true" ELSE "false"

\* mutant: the array's length, not the number of distinct identifiers, is
\* compared with the count
validateReference_noDedup(coll, modelName, value, fieldName, fails) ==
  IF Falsy(value) THEN Returned("true", << >>)
  ELSE IF value.tag = "array"
  THEN IF Len(value.ids) = 0 THEN Returned("true", << >>)
       ELSE LET uniqueValues == Unique([i \in DOMAIN value.ids |->
                                          toString(value.ids[i])])
                io == <<Lookup("countDocuments", modelName, <<fieldName>>,
                               [i \in DOMAIN uniqueValues |->
                                  CastObjectId(uniqueValues[i])],
                               ~fails)>>
            IN IF fails THEN Returned("throw", io)
               ELSE Returned(Bool(countDocuments(coll, uniqueValues)
                                    = Len(value.ids)), io)
  ELSE LET io == <<Lookup("exists", modelName, <<fieldName>>, value.ids,
                          ~fails)>>
       IN IF fails THEN Returned("throw", io)
          ELSE Returned(Bool(existsById(coll, value.ids[1])), io)

\* mutant: an empty array is counted like any other array
validateReference_noEmptyCheck(coll, modelName, value, fieldName, fails) ==
  IF Falsy(value) THEN Returned("true", << >>)
  ELSE IF value.tag = "array"
  THEN LET uniqueValues == Unique([i \in DOMAIN value.ids |->
                                     toString(value.ids[i])])
           io == <<Lookup("countDocuments", modelName, <<fieldName>>,
                          [i \in DOMAIN uniqueValues |->
                             CastObjectId(uniqueValues[i])],
                          ~fails)>>
       IN IF fails THEN Returned("throw", io)
          ELSE Returned(Bool(countDocuments(coll, uniqueValues)
                               = Len(uniqueValues)), io)
  ELSE LET io == <<Lookup("exists", modelName, <<fieldName>>, value.ids,
                          ~fails)>>
       IN IF fails THEN Returned("throw", io)
          ELSE Returned(Bool(existsById(coll, value.ids[1])), io)

\* mutant: the catch returns false, a failed lookup reads as a missing
\* document
validateReference_swallowsError(coll, modelName, value, fieldName, fails) ==
  IF Falsy(value) THEN Returned("true", << >>)
  ELSE IF value.tag = "array"
  THEN IF Len(value.ids) = 0 THEN Returned("true", << >>)
       ELSE LET uniqueValues == Unique([i \in DOMAIN value.ids |->
                                          toString(value.ids[i])])
                io == <<Lookup("countDocuments", modelName, <<fieldName>>,
                               [i \in DOMAIN uniqueValues |->
                                  CastObjectId(uniqueValues[i])],
                               ~fails)>>
            IN IF fails THEN Returned("false", io)
               ELSE Returned(Bool(countDocuments(coll, uniqueValues)
                                    = Len(uniqueValues)), io)
  ELSE LET io == <<Lookup("exists", modelName, <<fieldName>>, value.ids,
                          ~fails)>>
       IN IF fails THEN Returned("false", io)
          ELSE Returned(Bool(existsById(coll, value.ids[1])), io)

\* mutant: an array is accepted as soon as one of its identifiers exists
validateReference_anyExists(coll, modelName, value, fieldName, fails) ==
  IF Falsy(value) THEN Returned("true", << >>)
  ELSE IF value.tag = "array"
  THEN IF Len(value.ids) = 0 THEN Returned("true", << >>)
       ELSE LET uniqueValues == Unique([i \in DOMAIN value.ids |->
                                          toString(value.ids[i])])
                io == <<Lookup("countDocuments", modelName, <<fieldName>>,
                               [i \in DOMAIN uniqueValues |->
                                  CastObjectId(uniqueValues[i])],
                               ~fails)>>
            IN IF fails THEN Returned("throw", io)
               ELSE Returned(Bool(countDocuments(coll, uniqueValues) > 0), io)
  ELSE LET io == <<Lookup("exists", modelName, <<fieldName>>, value.ids,
                          ~fails)>>
       IN IF fails THEN Returned("throw", io)
          ELSE Returned(Bool(existsById(coll, value.ids[1])), io)

validateReference(coll, modelName, value, fieldName, fails) ==
  IF Falsy(value) THEN Returned("true", << >>)
  ELSE IF value.tag = "array"
  THEN IF Len(value.ids) = 0 THEN Returned("true", << >>)
       ELSE LET uniqueValues == Unique([i \in DOMAIN value.ids |->
                                          toString(value.ids[i])])
                io == <<Lookup("countDocuments", modelName, <<fieldName>>,
                               [i \in DOMAIN uniqueValues |->
                                  CastObjectId(uniqueValues[i])],
                               ~fails)>>
            IN IF fails THEN Returned("throw", io)
               ELSE Returned(Bool(countDocuments(coll, uniqueValues)
                                    = Len(uniqueValues)), io)
  ELSE LET io == <<Lookup("exists", modelName, <<fieldName>>, value.ids,
                          ~fails)>>
       IN IF fails THEN Returned("throw", io)
          ELSE Returned(Bool(existsById(coll, value.ids[1])), io)

(***************************************************************************)
(* validateReference of the JavaScript implementation (v1.x, index.js):    *)
(* model.exists({ _id: { $in: uniqueValues } }) for an array, whose answer *)
(* (a document or null) is returned as it is and read by its truthiness.   *)
(***************************************************************************)
\* model.exists({ _id: { $in: values } }): some document carries one of them
existsIn(coll, values) == \E i \in DOMAIN values : existsById(coll, values[i])

validateReferenceV1(coll, modelName, value, fieldName, fails) ==
  IF Falsy(value) THEN Returned("true", << >>)
  ELSE IF value.tag = "array"
  THEN IF Len(value.ids) = 0 THEN Returned("true", << >>)
       ELSE LET io == <<Lookup("exists", modelName, <<fieldName>>, value.ids,
                               ~fails)>>
            IN IF fails THEN Returned("throw", io)
               ELSE Returned(Bool(existsIn(coll, value.ids)), io)
  ELSE LET io == <<Lookup("exists", modelName, <<fieldName>>, value.ids,
                          ~fails)>>
       IN IF fails THEN Returned("throw", io)
          ELSE Returned(Bool(existsById(coll, value.ids[1])), io)

(***************************************************************************)
(* What a hook run (or a call of the manual API) comes to: the error       *)
(* passed to next (NoError for next()), or thrown to the caller by the     *)
(* manual API; the calls issued to the store, in order; how many times     *)
(* next was called; the ValidationResults returned (manual API).           *)
(***************************************************************************)
Outcome(err, io, nexts, results) ==
  [err |-> err, io |-> io, nexts |-> nexts, results |-> results]

\* obj[field] of a plain object (payload, data): undefined when not a key
KeyValue(obj, field) == IF field \in DOMAIN obj THEN obj[field] ELSE Null

\* the store raises on the failAt-th call of the run (0: on none)
FailsNext(failAt, io) == failAt = Len(io) + 1

(***************************************************************************)
(* for (const fieldObj of refFields) { ... } of the save and update hooks: *)
(* get is the object the value is read from (this.get(field) of the        *)
(* document, payload[field] of the update).  The error to pass to next,    *)
(* and the calls issued.                                                   *)
(***************************************************************************)
RECURSIVE ValidateFields(_, _, _, _, _, _)
ValidateFields(st, refFields, k, get, failAt, io) ==
  IF k > Len(refFields) THEN [err |-> NoError, io |-> io]
  ELSE LET fieldObj == refFields[k]
           value == KeyValue(get, fieldObj.field)
       IN IF Falsy(value)
          THEN ValidateFields(st, refFields, k + 1, get, failAt, io)
          ELSE LET r == validateReference(st[fieldObj.refTo], fieldObj.refTo,
                                          value, fieldObj.field,
                                          FailsNext(failAt, io))
                   io2 == io \o r.io
               IN IF r.ret = "throw"
                  THEN [err |-> DatabaseError(fieldObj.field,
                                              DriverError(fieldObj.refTo)),
                        io |-> io2]
                  ELSE IF r.ret = "false"
                  THEN [err |-> ReferenceValidationError(value, fieldObj.refTo),
                        io |-> io2]
                  ELSE ValidateFields(st, refFields, k + 1, get, failAt, io2)

(***************************************************************************)
(* schema.pre('save', ...)                                                 *)
(***************************************************************************)
\* mutant: the early exit is taken when the schema has reference fields
preSave_invertedEarlyExit(cat, st, modelName, doc, failAt) ==
  LET refFields == getRefFields(PathsOf(cat, modelName))
  IN IF Len(refFields) # 0 THEN Outcome(NoError, << >>, 1, << >>)
     ELSE LET r == ValidateFields(st, refFields, 1, doc.vals, failAt, << >>)
          IN Outcome(r.err, r.io, 1, << >>)

preSave(cat, st, modelName, doc, failAt) ==
  LET refFields == getRefFields(PathsOf(cat, modelName))
  IN IF Len(refFields) = 0 THEN Outcome(NoError, << >>, 1, << >>)
     ELSE LET r == ValidateFields(st, refFields, 1, doc.vals, failAt, << >>)
          IN Outcome(r.err, r.io, 1, << >>)

(***************************************************************************)
(* schema.pre(['findOneAndUpdate', 'updateOne', 'updateMany'], ...)        *)
(* An update is [present, top, set]: whether getUpdate() returns an        *)
(* object, its top-level field keys, and the keys under its $set.          *)
(***************************************************************************)
Update(present, top, set) == [present |-> present, top |-> top, set |-> set]

NoKeys == [f \in {} |-> Null]

\* mutant: the hook returns when there is a payload
preUpdate_invertedPayloadCheck(cat, st, modelName, update, failAt) ==
  IF update.present THEN Outcome(NoError, << >>, 1, << >>)
  ELSE LET refFields == getRefFields(PathsOf(cat, modelName))
       IN IF Len(refFields) = 0 THEN Outcome(NoError, << >>, 1, << >>)
          ELSE LET r == ValidateFields(st, refFields, 1, update.top, failAt,
                                       << >>)
               IN Outcome(r.err, r.io, 1, << >>)

\* mutant: the keys under $set are read as well as the top-level ones
preUpdate_mergesSet(cat, st, modelName, update, failAt) ==
  IF ~update.present THEN Outcome(NoError, << >>, 1, << >>)
  ELSE LET refFields == getRefFields(PathsOf(cat, modelName))
           payload == [f \in DOMAIN update.top \cup DOMAIN update.set |->
                         IF f \in DOMAIN update.top THEN update.top[f]
                         ELSE update.set[f]]
       IN IF Len(refFields) = 0 THEN Outcome(NoError, << >>, 1, << >>)
          ELSE LET r == ValidateFields(st, refFields, 1, payload, failAt,
                                       << >>)
               IN Outcome(r.err, r.io, 1, << >>)

\* mutant: the payload is what is under $set, when there is a $set
preUpdate_readsSet(cat, st, modelName, update, failAt) ==
  IF ~update.present THEN Outcome(NoError, << >>, 1, << >>)
  ELSE LET refFields == getRefFields(PathsOf(cat, modelName))
           payload == IF DOMAIN update.set # {} THEN update.set
                      ELSE update.top
       IN IF Len(refFields) = 0 THEN Outcome(NoError, << >>, 1, << >>)
          ELSE LET r == ValidateFields(st, refFields, 1, payload, failAt,
                                       << >>)
               IN Outcome(r.err, r.io, 1, << >>)
preUpdate(cat, st, modelName, update, failAt) ==
  IF ~update.present THEN Outcome(NoError, << >>, 1, << >>)
  ELSE LET refFields == getRefFields(PathsOf(cat, modelName))
       IN IF Len(refFields) = 0 THEN Outcome(NoError, << >>, 1, << >>)
          ELSE LET r == ValidateFields(st, refFields, 1, update.top, failAt,
                                       << >>)
               IN Outcome(r.err, r.io, 1, << >>)

(***************************************************************************)
(* Queries of the update and delete families: every document ({}) or the   *)
(* one with a given _id.                                                   *)
(***************************************************************************)
QueryAll == [kind |-> "all", id |-> 0]

QueryId(i) == [kind |-> "id", id |-> i]

Matches(doc, query) == query.kind = "all" \/ doc.id = query.id

\* positions of the matching documents
Matching(coll, query) == {i \in DOMAIN coll : Matches(coll[i], query)}

Min(S) == CHOOSE x \in S : \A y \in S : x <= y

\* mutant: the last match is returned
findOne_lastMatch(coll, query) ==
  IF Matching(coll, query) = {} THEN << >>
  ELSE <<coll[CHOOSE i \in Matching(coll, query) :
                 \A j \in Matching(coll, query) : j <= i]>>

\* this.model.findOne(query): the first match, as a sequence of 0 or 1
findOne(coll, query) ==
  IF Matching(coll, query) = {} THEN << >>
  ELSE <<coll[Min(Matching(coll, query))]>>

\* { [field]: id } of a $match: the field equals id, or is an array that
\* contains it (a subdocument is not equal to an identifier)
FieldEquals(value, id) == value.tag # "subdocs" /\ id \in Range(value.ids)

\* mutant: the $match is on the first of the fields alone
aggregate_firstFieldOnly(coll, fields, id) ==
  LET hits == {i \in DOMAIN coll :
                 FieldEquals(KeyValue(coll[i].vals, fields[1]), id)}
  IN IF hits = {} THEN << >> ELSE <<coll[Min(hits)]>>

\* model.aggregate([{ $match: { $or: fields.map(f => ({[f]: id})) } },
\*                  { $limit: 1 }])
aggregate(coll, fields, id) ==
  LET hits == {i \in DOMAIN coll :
                 \E j \in DOMAIN fields :
                    FieldEquals(KeyValue(coll[i].vals, fields[j]), id)}
  IN IF hits = {} THEN << >> ELSE <<coll[Min(hits)]>>

(***************************************************************************)
(* The delete hook's discovery: for (const modelName of allModelNames)     *)
(***************************************************************************)
RefModel(modelName, fields) == [modelName |-> modelName, fields |-> fields]

\* mutant: every field that references some model is taken
RECURSIVE FieldsReferencing_anyRef(_, _, _)
FieldsReferencing_anyRef(paths, i, deletingModelName) ==
  IF i > Len(paths) THEN << >>
  ELSE (IF paths[i].ref # "" THEN <<paths[i].field>> ELSE << >>)
       \o FieldsReferencing_anyRef(paths, i + 1, deletingModelName)

\* for (const field in model.schema.paths): the fields whose options.ref
\* is the model under deletion
RECURSIVE FieldsReferencing(_, _, _)
FieldsReferencing(paths, i, deletingModelName) ==
  IF i > Len(paths) THEN << >>
  ELSE (IF paths[i].ref = deletingModelName THEN <<paths[i].field>>
        ELSE << >>)
       \o FieldsReferencing(paths, i + 1, deletingModelName)

\* mutant: the model under deletion is the one scanned, the others skipped
RECURSIVE RefModelsFrom_ownOnly(_, _, _)
RefModelsFrom_ownOnly(cat, i, deletingModelName) ==
  IF i > Len(cat) THEN << >>
  ELSE LET modelName == cat[i].name
           refFields == FieldsReferencing(cat[i].paths, 1, deletingModelName)
       IN (IF modelName = deletingModelName /\ Len(refFields) > 0
           THEN <<RefModel(modelName, refFields)>>
           ELSE << >>)
          \o RefModelsFrom_ownOnly(cat, i + 1, deletingModelName)

\* mutant: the model under deletion is scanned like the others
RECURSIVE RefModelsFrom_scansSelf(_, _, _)
RefModelsFrom_scansSelf(cat, i, deletingModelName) ==
  IF i > Len(cat) THEN << >>
  ELSE LET modelName == cat[i].name
           refFields == FieldsReferencing(cat[i].paths, 1, deletingModelName)
       IN (IF Len(refFields) > 0
           THEN <<RefModel(modelName, refFields)>>
           ELSE << >>)
          \o RefModelsFrom_scansSelf(cat, i + 1, deletingModelName)
RECURSIVE RefModelsFrom(_, _, _)
RefModelsFrom(cat, i, deletingModelName) ==
  IF i > Len(cat) THEN << >>
  ELSE LET modelName == cat[i].name
           refFields == FieldsReferencing(cat[i].paths, 1, deletingModelName)
       IN (IF modelName # deletingModelName /\ Len(refFields) > 0
           THEN <<RefModel(modelName, refFields)>>
           ELSE << >>)
          \o RefModelsFrom(cat, i + 1, deletingModelName)

\* mutant: every referencing model is queried, and the first that answered
\* with a document is then named
RECURSIVE CheckRefModels_scansAll(_, _, _, _, _, _)
CheckRefModels_scansAll(st, refModels, k, id, failAt, io) ==
  IF k > Len(refModels) THEN [err |-> NoError, io |-> io]
  ELSE LET refModel == refModels[k]
           fails == FailsNext(failAt, io)
           io2 == Append(io, Lookup("aggregate", refModel.modelName,
                                    refModel.fields, <<id>>, ~fails))
           rest == CheckRefModels_scansAll(st, refModels, k + 1, id, failAt,
                                           io2)
       IN IF fails
          THEN [err |-> DriverError(refModel.modelName), io |-> io2]
          ELSE IF Len(aggregate(st[refModel.modelName], refModel.fields, id))
                    > 0
          THEN [err |-> IF rest.err.type = "Driver" THEN rest.err
                        ELSE ReferentialIntegrityError(id, refModel.modelName),
                io |-> rest.io]
          ELSE rest

\* mutant: an aggregate that fails counts as one that found nothing
RECURSIVE CheckRefModels_swallowsFailure(_, _, _, _, _, _)
CheckRefModels_swallowsFailure(st, refModels, k, id, failAt, io) ==
  IF k > Len(refModels) THEN [err |-> NoError, io |-> io]
  ELSE LET refModel == refModels[k]
           fails == FailsNext(failAt, io)
           io2 == Append(io, Lookup("aggregate", refModel.modelName,
                                    refModel.fields, <<id>>, ~fails))
       IN IF ~fails
             /\ Len(aggregate(st[refModel.modelName], refModel.fields, id)) > 0
          THEN [err |-> ReferentialIntegrityError(id, refModel.modelName),
                io |-> io2]
          ELSE CheckRefModels_swallowsFailure(st, refModels, k + 1, id,
                                              failAt, io2)
\* for (const refModel of refModels) { ... aggregate ... }
RECURSIVE CheckRefModels(_, _, _, _, _, _)
CheckRefModels(st, refModels, k, id, failAt, io) ==
  IF k > Len(refModels) THEN [err |-> NoError, io |-> io]
  ELSE LET refModel == refModels[k]
           fails == FailsNext(failAt, io)
           io2 == Append(io, Lookup("aggregate", refModel.modelName,
                                    refModel.fields, <<id>>, ~fails))
       IN IF fails
          THEN [err |-> DriverError(refModel.modelName), io |-> io2]
          ELSE IF Len(aggregate(st[refModel.modelName], refModel.fields, id))
                    > 0
          THEN [err |-> ReferentialIntegrityError(id, refModel.modelName),
                io |-> io2]
          ELSE CheckRefModels(st, refModels, k + 1, id, failAt, io2)

(***************************************************************************)
(* schema.pre(['deleteOne', 'findOneAndDelete', 'deleteMany'], ...)        *)
(***************************************************************************)
\* mutant: no return when findOne finds nothing; the scan runs for the
\* identifier the query asks for
preDelete_noEarlyReturn(cat, st, deletingModelName, query, failAt) ==
  LET fails == FailsNext(failAt, << >>)
      io == <<Lookup("findOne", deletingModelName, << >>,
                     IF query.kind = "id" THEN <<query.id>> ELSE << >>,
                     ~fails)>>
      deletingItem == findOne(st[deletingModelName], query)
      id == IF Len(deletingItem) = 0 THEN query.id ELSE deletingItem[1].id
      refModels == RefModelsFrom(cat, 1, deletingModelName)
  IN IF fails THEN Outcome(DriverError(deletingModelName), io, 1, << >>)
     ELSE IF Len(refModels) = 0 THEN Outcome(NoError, io, 1, << >>)
     ELSE LET r == CheckRefModels(st, refModels, 1, id, failAt, io)
          IN Outcome(r.err, r.io, 1, << >>)

\* mutant: a bare return, without next(), when findOne finds nothing
preDelete_returnsWithoutNext(cat, st, deletingModelName, query, failAt) ==
  LET fails == FailsNext(failAt, << >>)
      io == <<Lookup("findOne", deletingModelName, << >>,
                     IF query.kind = "id" THEN <<query.id>> ELSE << >>,
                     ~fails)>>
      deletingItem == findOne(st[deletingModelName], query)
      refModels == RefModelsFrom(cat, 1, deletingModelName)
  IN IF fails THEN Outcome(DriverError(deletingModelName), io, 1, << >>)
     ELSE IF Len(deletingItem) = 0 THEN Outcome(NoError, io, 0, << >>)
     ELSE IF Len(refModels) = 0 THEN Outcome(NoError, io, 1, << >>)
     ELSE LET r == CheckRefModels(st, refModels, 1, deletingItem[1].id,
                                  failAt, io)
          IN Outcome(r.err, r.io, 1, << >>)
preDelete(cat, st, deletingModelName, query, failAt) ==
  LET fails == FailsNext(failAt, << >>)
      io == <<Lookup("findOne", deletingModelName, << >>,
                     IF query.kind = "id" THEN <<query.id>> ELSE << >>,
                     ~fails)>>
      deletingItem == findOne(st[deletingModelName], query)
      refModels == RefModelsFrom(cat, 1, deletingModelName)
  IN IF fails THEN Outcome(DriverError(deletingModelName), io, 1, << >>)
     ELSE IF Len(deletingItem) = 0 THEN Outcome(NoError, io, 1, << >>)
     ELSE IF Len(refModels) = 0 THEN Outcome(NoError, io, 1, << >>)
     ELSE LET r == CheckRefModels(st, refModels, 1, deletingItem[1].id,
                                  failAt, io)
          IN Outcome(r.err, r.io, 1, << >>)

(***************************************************************************)
(* schema.statics.validateReferences(data) and                             *)
(* schema.methods.checkReferences(): get is data, or the instance's        *)
(* fields.                                                                 *)
(***************************************************************************)
ValidationResult(field, refTo, value, isValid) ==
  [field |-> field, refTo |-> refTo, value |-> value, isValid |-> isValid]

\* mutant: the loop ends at the first invalid field, as the hooks' does
RECURSIVE CollectResults_stopsAtInvalid(_, _, _, _, _, _, _)
CollectResults_stopsAtInvalid(st, refFields, k, get, failAt, io, results) ==
  IF k > Len(refFields) THEN Outcome(NoError, io, 0, results)
  ELSE LET fieldObj == refFields[k]
           value == KeyValue(get, fieldObj.field)
       IN IF Falsy(value)
          THEN CollectResults_stopsAtInvalid(st, refFields, k + 1, get,
                                             failAt, io, results)
          ELSE LET r == validateReference(st[fieldObj.refTo], fieldObj.refTo,
                                          value, fieldObj.field,
                                          FailsNext(failAt, io))
                   io2 == io \o r.io
                   results2 == Append(results,
                                      ValidationResult(fieldObj.field,
                                                       fieldObj.refTo, value,
                                                       r.ret = "true"))
               IN IF r.ret = "throw"
                  THEN Outcome(DatabaseError(fieldObj.field,
                                             DriverError(fieldObj.refTo)),
                               io2, 0, << >>)
                  ELSE IF r.ret = "false"
                  THEN Outcome(NoError, io2, 0, results2)
                  ELSE CollectResults_stopsAtInvalid(st, refFields, k + 1,
                                                     get, failAt, io2,
                                                     results2)

RECURSIVE CollectResults(_, _, _, _, _, _, _)
CollectResults(st, refFields, k, get, failAt, io, results) ==
  IF k > Len(refFields) THEN Outcome(NoError, io, 0, results)
  ELSE LET fieldObj == refFields[k]
           value == KeyValue(get, fieldObj.field)
       IN IF Falsy(value)
          THEN CollectResults(st, refFields, k + 1, get, failAt, io, results)
          ELSE LET r == validateReference(st[fieldObj.refTo], fieldObj.refTo,
                                          value, fieldObj.field,
                                          FailsNext(failAt, io))
                   io2 == io \o r.io
               IN IF r.ret = "throw"
                  THEN Outcome(DatabaseError(fieldObj.field,
                                             DriverError(fieldObj.refTo)),
                               io2, 0, << >>)
                  ELSE CollectResults(st, refFields, k + 1, get, failAt, io2,
                         Append(results,
                                ValidationResult(fieldObj.field,
                                                 fieldObj.refTo, value,
                                                 r.ret = "true")))

validateReferences(cat, st, modelName, data, failAt) ==
  CollectResults(st, getRefFields(PathsOf(cat, modelName)), 1, data, failAt,
                 << >>, << >>)

checkReferences(cat, st, modelName, doc, failAt) ==
  CollectResults(st, getRefFields(PathsOf(cat, modelName)), 1, doc.vals,
                 failAt, << >>, << >>)

(***************************************************************************)
(* The writes of the operation pipeline, applied once every pre hook has   *)
(* called next() without an error.                                         *)
(***************************************************************************)
\* document.save(): the stored document of that _id is replaced where it
\* stands, a new one is appended
SaveWrite(coll, doc) ==
  IF doc.id \in DocIds(coll)
  THEN [i \in DOMAIN coll |-> IF coll[i].id = doc.id THEN doc ELSE coll[i]]
  ELSE Append(coll, doc)

\* the documents an operation on query acts on: the first match, or all
Targets(coll, query, many) ==
  IF many \/ Matching(coll, query) = {} THEN Matching(coll, query)
  ELSE {Min(Matching(coll, query))}

\* updateOne / findOneAndUpdate / updateMany: top-level keys and $set keys
\* are assigned
ApplyUpdate(vals, update) ==
  [f \in DOMAIN vals |->
     IF f \in DOMAIN update.top THEN update.top[f]
     ELSE IF f \in DOMAIN update.set THEN update.set[f]
     ELSE vals[f]]

UpdateWrite(coll, query, update, many) ==
  IF ~update.present THEN coll
  ELSE [i \in DOMAIN coll |->
          IF i \in Targets(coll, query, many)
          THEN Doc(coll[i].id, ApplyUpdate(coll[i].vals, update))
          ELSE coll[i]]

RECURSIVE Without(_, _)
Without(coll, drop) ==
  IF coll = << >> THEN << >>
  ELSE LET init == Without(SubSeq(coll, 1, Len(coll) - 1), drop)
       IN IF Len(coll) \in drop THEN init ELSE Append(init, coll[Len(coll)])

\* deleteOne / findOneAndDelete / deleteMany
DeleteWrite(coll, query, many) == Without(coll, Targets(coll, query, many))

(***************************************************************************)
(* ReferenceCheck(schema, options): the configuration captured at attach   *)
(* time, the defaults overridden by the caller's options.                  *)
(***************************************************************************)
Defaults ==
  [enableSave |-> TRUE, enableUpdate |-> TRUE, enableDelete |-> TRUE,
   enableLogging |-> FALSE, batchSize |-> 100]

ReferenceCheck(options) ==
  [k \in DOMAIN Defaults |->
     IF k \in DOMAIN options THEN options[k] ELSE Defaults[k]]

\* the options a caller may pass for the three hook switches
HookFlags == {"enableSave", "enableUpdate", "enableDelete"}

AllOptions == UNION {[K -> BOOLEAN] : K \in SUBSET HookFlags}

(***************************************************************************)
(* State.                                                                  *)
(*   catalog  the registered models, in db.modelNames() order, each with   *)
(*            its schema's paths                                           *)
(*   config   the plugin's configuration (attached to every schema)        *)
(*   store    the documents of every model                                 *)
(*   ops      per pipeline slot, the operation it runs or ran last: its    *)
(*            inputs, what its hook came to, whether its write was applied *)
(*   scen     observer of the User/Post scenario: how far the operations   *)
(*            so far have followed it, and with which identifiers          *)
(*   probe    one direct call of validateReference: its arguments and      *)
(*            what it returned                                             *)
(***************************************************************************)
VARIABLES catalog, config, store, ops, scen, probe

vars == <<catalog, config, store, ops, scen, probe>>

Procs == {1, 2}

NoDoc == Doc(0, NoKeys)

NoUpdate == Update(FALSE, NoKeys, NoKeys)

EmptyStore(cat) == [m \in Range(ModelNames(cat)) |-> << >>]

Op(phase, kind, model, doc, query, update, hooked, out, applied, pre) ==
  [phase |-> phase, kind |-> kind, model |-> model, doc |-> doc,
   query |-> query, update |-> update, hooked |-> hooked,
   err |-> out.err, io |-> out.io, nexts |-> out.nexts,
   results |-> out.results, applied |-> applied, pre |-> pre]

\* no hook installed for the operation: nothing runs before the write
NotHooked == Outcome(NoError, << >>, 0, << >>)

Idle(cat) ==
  Op("idle", "none", "", NoDoc, QueryAll, NoUpdate, FALSE, NotHooked, FALSE,
     EmptyStore(cat))

NoScen == [step |-> 0, u |-> 0, p |-> 0]

NoProbe ==
  [phase |-> "none", coll |-> << >>, value |-> Null, fails |-> FALSE,
   ret |-> "", io |-> << >>]

(***************************************************************************)
(* Inputs.                                                                 *)
(***************************************************************************)
SubdocValues == {Subdocs(s) : s \in SeqsUpTo(Ids, MaxLen)}

AllValues ==
  ValuesOf(TRUE, Ids, MaxLen) \cup ValuesOf(FALSE, Ids, MaxLen)
  \cup SubdocValues

TypedValues(paths, field) ==
  LET path == paths[PathOfField(paths, field)]
  IN IF path.isArray /\ Len(path.sub) > 0 THEN SubdocValues
     ELSE ValuesOf(path.isArray, Ids, MaxLen)

\* the field values of a document of the schema
DocVals(paths) ==
  {v \in [DocFields(paths) -> AllValues] :
     \A f \in DocFields(paths) : v[f] \in TypedValues(paths, f)}

Docs(paths) == {Doc(id, v) : id \in Ids, v \in DocVals(paths)}

\* plain objects holding some of the schema's fields as keys (an update's
\* top level, its $set, the data of validateReferences)
KeyMaps(paths) ==
  UNION {{v \in [K -> AllValues \ {Null}] :
            \A f \in K : v[f] \in TypedValues(paths, f)} :
         K \in SUBSET DocFields(paths)}

\* updates: none, top-level field keys, or one field under $set
Updates(paths) ==
  {NoUpdate}
  \cup {Update(TRUE, t, NoKeys) : t \in KeyMaps(paths)}
  \cup {Update(TRUE, NoKeys, s) :
          s \in {k \in KeyMaps(paths) : Cardinality(DOMAIN k) = 1}}

\* (query, many) of an update: one document by _id, or all
UpdateForms == {<<QueryId(i), FALSE>> : i \in Ids} \cup {<<QueryAll, TRUE>>}

\* (query, many) of a delete: one document by _id, the first of all, or all
DeleteForms == UpdateForms \cup {<<QueryAll, FALSE>>}

\* the catalogs the specifications start from
Catalogs == {BlogCatalog, UserPostCatalog, ForumCatalog, ThreadCatalog}

NamesOf(cat) == Range(ModelNames(cat))

\* the inputs of each kind of operation, per catalog and model
DocsOf ==
  [c \in Catalogs |-> [m \in NamesOf(c) |-> Docs(PathsOf(c, m))]]

DocValsOf ==
  [c \in Catalogs |-> [m \in NamesOf(c) |-> DocVals(PathsOf(c, m))]]

KeyMapsOf ==
  [c \in Catalogs |-> [m \in NamesOf(c) |-> KeyMaps(PathsOf(c, m))]]

UpdatesOf ==
  [c \in Catalogs |-> [m \in NamesOf(c) |-> Updates(PathsOf(c, m))]]

\* which call of a run the store may fail (0: none): a run over the
\* schema's reference fields issues at most one call per field, a delete
\* one findOne and at most one aggregate per other model
FieldFailAts ==
  [c \in Catalogs |->
     [m \in NamesOf(c) |-> 0..Len(getRefFields(PathsOf(c, m)))]]

DeleteFailAts == [c \in Catalogs |-> 0..Len(c)]

(***************************************************************************)
(* The observer of the scenario "create User u1; create Post p1 with       *)
(* author u1; delete u1; delete p1; delete u1", each step an operation     *)
(* whose lookups the store answers.  It follows what is attempted; what    *)
(* comes of each attempt is for the claims to say.                         *)
(***************************************************************************)
LookupsOk(o) == \A i \in DOMAIN o.io : o.io[i].ok

IsDelete(o) == o.kind \in {"deleteOne", "deleteMany"}

ScenStep1(o) ==
  /\ o.kind = "save" /\ o.model = "User" /\ LookupsOk(o)
  /\ \A m \in DOMAIN o.pre : o.pre[m] = << >>

ScenStep2(s, o) ==
  /\ o.kind = "save" /\ o.model = "Post" /\ LookupsOk(o)
  /\ "author" \in DOMAIN o.doc.vals
  /\ \A f \in DOMAIN o.doc.vals :
        o.doc.vals[f] = IF f = "author" THEN Scalar(s.u) ELSE Null

ScenDelete(o, model, id) ==
  IsDelete(o) /\ o.model = model /\ o.query = QueryId(id) /\ LookupsOk(o)

ScenNext(s, o) ==
  IF s.step = 1 /\ ScenStep2(s, o) THEN [step |-> 2, u |-> s.u, p |-> o.doc.id]
  ELSE IF s.step = 2 /\ ScenDelete(o, "User", s.u) THEN [s EXCEPT !.step = 3]
  ELSE IF s.step = 3 /\ ScenDelete(o, "Post", s.p) THEN [s EXCEPT !.step = 4]
  ELSE IF s.step = 4 /\ ScenDelete(o, "User", s.u) THEN [s EXCEPT !.step = 5]
  ELSE IF ScenStep1(o) THEN [step |-> 1, u |-> o.doc.id, p |-> 0]
  ELSE NoScen

(***************************************************************************)
(* Operations.  One action is one operation of the pipeline from start to  *)
(* end: the pre hook, when the configuration installed one, then the       *)
(* write, unless the hook passed an error to next.                         *)
(***************************************************************************)
Proceeds(out) == out.err.type = "none"

Complete(p, rec, st2) ==
  /\ ops' = [ops EXCEPT ![p] = rec]
  /\ store' = st2
  /\ scen' = ScenNext(scen, rec)
  /\ UNCHANGED <<catalog, config, probe>>

\* document.save()
Save(p, m, doc, failAt) ==
  /\ ops[p].phase = "idle"
  /\ doc.id \in DocIds(store[m]) \/ TotalDocs(store) < MaxDocs
  /\ LET hooked == config.enableSave
         out == IF hooked THEN preSave(catalog, store, m, doc, failAt)
                ELSE NotHooked
         st2 == IF Proceeds(out) THEN [store EXCEPT ![m] = SaveWrite(@, doc)]
                ELSE store
     IN Complete(p, Op("done", "save", m, doc, QueryAll, NoUpdate, hooked,
                       out, Proceeds(out), store), st2)

\* Model.updateOne / findOneAndUpdate (many = FALSE), Model.updateMany
UpdateOp(p, m, query, many, update, failAt) ==
  /\ ops[p].phase = "idle"
  /\ LET hooked == config.enableUpdate
         out == IF hooked THEN preUpdate(catalog, store, m, update, failAt)
                ELSE NotHooked
         st2 == IF Proceeds(out)
                THEN [store EXCEPT ![m] = UpdateWrite(@, query, update, many)]
                ELSE store
     IN Complete(p, Op("done", IF many THEN "updateMany" ELSE "updateOne", m,
                       NoDoc, query, update, hooked, out, Proceeds(out),
                       store), st2)

\* mutant: the delete hook is installed under the save switch
DeleteOp_wrongFlag(p, m, query, many, failAt) ==
  /\ ops[p].phase = "idle"
  /\ LET hooked == config.enableSave
         out == IF hooked THEN preDelete(catalog, store, m, query, failAt)
                ELSE NotHooked
         st2 == IF Proceeds(out)
                THEN [store EXCEPT ![m] = DeleteWrite(@, query, many)]
                ELSE store
     IN Complete(p, Op("done", IF many THEN "deleteMany" ELSE "deleteOne", m,
                       NoDoc, query, NoUpdate, hooked, out, Proceeds(out),
                       store), st2)

\* Model.deleteOne / findOneAndDelete (many = FALSE), Model.deleteMany
\* mutant: a delete the hook aborts for a reference clears the collection
\* that holds it (a cascade)
DeleteOp_cascades(p, m, query, many, failAt) ==
  /\ ops[p].phase = "idle"
  /\ LET hooked == config.enableDelete
         out == IF hooked THEN preDelete(catalog, store, m, query, failAt)
                ELSE NotHooked
         st2 == IF Proceeds(out)
                THEN [store EXCEPT ![m] = DeleteWrite(@, query, many)]
                ELSE IF out.err.type = "ReferentialIntegrity"
                THEN [store EXCEPT ![out.err.model] = << >>]
                ELSE store
     IN Complete(p, Op("done", IF many THEN "deleteMany" ELSE "deleteOne", m,
                       NoDoc, query, NoUpdate, hooked, out, Proceeds(out),
                       store), st2)
DeleteOp(p, m, query, many, failAt) ==
  /\ ops[p].phase = "idle"
  /\ LET hooked == config.enableDelete
         out == IF hooked THEN preDelete(catalog, store, m, query, failAt)
                ELSE NotHooked
         st2 == IF Proceeds(out)
                THEN [store EXCEPT ![m] = DeleteWrite(@, query, many)]
                ELSE store
     IN Complete(p, Op("done", IF many THEN "deleteMany" ELSE "deleteOne", m,
                       NoDoc, query, NoUpdate, hooked, out, Proceeds(out),
                       store), st2)

\* mutant: the results array is shared by the calls (declared once, outside
\* the function), so a call starts from what the previous one left in it
ValidateReferencesCall_sharedResults(p, m, data, failAt) ==
  /\ ops[p].phase = "idle"
  /\ LET out == validateReferences(catalog, store, m, data, failAt)
         left == ops[1].results
     IN Complete(p, Op("done", "validateReferences", m, Doc(0, data),
                       QueryAll, NoUpdate, FALSE,
                       Outcome(out.err, out.io, out.nexts,
                               IF out.err = NoError THEN left \o out.results
                               ELSE out.results),
                       FALSE, store), store)

\* Model.validateReferences(data)
ValidateReferencesCall(p, m, data, failAt) ==
  /\ ops[p].phase = "idle"
  /\ Complete(p, Op("done", "validateReferences", m, Doc(0, data), QueryAll,
                    NoUpdate, FALSE,
                    validateReferences(catalog, store, m, data, failAt),
                    FALSE, store), store)

\* instance.checkReferences(): the instance (stored or not) is read through
\* this.get(field) alone
CheckReferencesCall(p, m, vals, failAt) ==
  /\ ops[p].phase = "idle"
  /\ Complete(p, Op("done", "checkReferences", m, Doc(0, vals), QueryAll,
                    NoUpdate, FALSE,
                    checkReferences(catalog, store, m, Doc(0, vals), failAt),
                    FALSE, store), store)

\* the caller takes the operation's result (its promise settles): the slot
\* is free for the next operation
Return(p) ==
  /\ ops[p].phase = "done"
  /\ ops' = [ops EXCEPT ![p] = Idle(catalog)]
  /\ UNCHANGED <<catalog, config, store, scen, probe>>

(***************************************************************************)
(* Each kind of operation, on any model of the catalog with any input.     *)
(***************************************************************************)
SaveStep(p) ==
  /\ ops[p].phase = "idle"
  /\ \E m \in NamesOf(catalog) :
        \E doc \in DocsOf[catalog][m], failAt \in FieldFailAts[catalog][m] :
           Save(p, m, doc, failAt)

UpdateStep(p) ==
  /\ ops[p].phase = "idle"
  /\ \E m \in NamesOf(catalog) :
        \E q \in UpdateForms, update \in UpdatesOf[catalog][m],
           failAt \in FieldFailAts[catalog][m] :
           UpdateOp(p, m, q[1], q[2], update, failAt)

DeleteStep(p) ==
  /\ ops[p].phase = "idle"
  /\ \E m \in NamesOf(catalog) :
        \E q \in DeleteForms, failAt \in DeleteFailAts[catalog] :
           DeleteOp(p, m, q[1], q[2], failAt)

ValidateReferencesStep(p) ==
  /\ ops[p].phase = "idle"
  /\ \E m \in NamesOf(catalog) :
        \E data \in KeyMapsOf[catalog][m],
           failAt \in FieldFailAts[catalog][m] :
           ValidateReferencesCall(p, m, data, failAt)

CheckReferencesStep(p) ==
  /\ ops[p].phase = "idle"
  /\ \E m \in NamesOf(catalog) :
        \E vals \in DocValsOf[catalog][m],
           failAt \in FieldFailAts[catalog][m] :
           CheckReferencesCall(p, m, vals, failAt)

(***************************************************************************)
(* Spec: the plugin attached with its default options to the README's      *)
(* schemas over an empty store; operations run one at a time.              *)
(***************************************************************************)
InitWith(cat, options) ==
  /\ catalog = cat
  /\ config = ReferenceCheck(options)
  /\ store = EmptyStore(cat)
  /\ ops = [p \in Procs |-> Idle(cat)]
  /\ scen = NoScen
  /\ probe = NoProbe

Init == InitWith(BlogCatalog, NoKeys)

Next ==
  \/ SaveStep(1)
  \/ UpdateStep(1)
  \/ DeleteStep(1)
  \/ ValidateReferencesStep(1)
  \/ CheckReferencesStep(1)
  \/ Return(1)

Spec == Init /\ [][Next]_vars

(***************************************************************************)
(* SpecOptions: the plugin attached with any options for its three hook    *)
(* switches to the User/Post schemas, over a store that already holds      *)
(* documents (written before the plugin was attached, so with or without   *)
(* dangling references).                                                   *)
(***************************************************************************)
\* the collections of a schema: documents of distinct _id, in any order
Collections(paths) ==
  {c \in SeqsUpTo(Docs(paths), MaxId) :
     \A i, j \in DOMAIN c : i # j => c[i].id # c[j].id}

Stores(cat) ==
  {st \in [NamesOf(cat) -> UNION {Collections(PathsOf(cat, m)) :
                                    m \in NamesOf(cat)}] :
     /\ \A m \in NamesOf(cat) : st[m] \in Collections(PathsOf(cat, m))
     /\ TotalDocs(st) <= MaxInitDocs}

InitOptions ==
  /\ catalog = UserPostCatalog
  /\ \E options \in AllOptions : config = ReferenceCheck(options)
  /\ store \in Stores(UserPostCatalog)
  /\ ops = [p \in Procs |-> Idle(UserPostCatalog)]
  /\ scen = NoScen
  /\ probe = NoProbe

SpecOptions == InitOptions /\ [][Next]_vars

(***************************************************************************)
(* SpecValidator: validateReference called directly, on any target         *)
(* collection and any value within the bounds.                             *)
(***************************************************************************)
\* a collection holding exactly the documents of the given identifiers
CollectionOf(idSet) ==
  LET RECURSIVE Asc(_)
      Asc(S) == IF S = {} THEN << >>
                ELSE LET m == CHOOSE x \in S : \A y \in S : x >= y
                     IN Append(Asc(S \ {m}), Doc(m, NoKeys))
  IN Asc(idSet)

ArgIds == 1..MaxArgId

ArgValues ==
  ValuesOf(TRUE, ArgIds, MaxArgLen) \cup ValuesOf(FALSE, ArgIds, MaxArgLen)

InitValidator ==
  /\ catalog = BlogCatalog
  /\ config = ReferenceCheck(NoKeys)
  /\ store = EmptyStore(BlogCatalog)
  /\ ops = [p \in Procs |-> Idle(BlogCatalog)]
  /\ scen = NoScen
  /\ \E idSet \in SUBSET ArgIds, value \in ArgValues, fails \in BOOLEAN :
        probe = [phase |-> "args", coll |-> CollectionOf(idSet),
                 value |-> value, fails |-> fails, ret |-> "", io |-> << >>]

CallValidateReference ==
  /\ probe.phase = "args"
  /\ LET r == validateReference(probe.coll, "Tag", probe.value, "tags",
                                probe.fails)
     IN probe' = [probe EXCEPT !.phase = "done", !.ret = r.ret, !.io = r.io]
  /\ UNCHANGED <<catalog, config, store, ops, scen>>

NextValidator == CallValidateReference

SpecValidator == InitValidator /\ [][NextValidator]_vars

(***************************************************************************)
(* SpecVersions: the same value validated against the same target          *)
(* collection by both implementations, index.ts and index.js, in either    *)
(* order.                                                                  *)
(***************************************************************************)
InitVersions ==
  /\ catalog = BlogCatalog
  /\ config = ReferenceCheck(NoKeys)
  /\ store = EmptyStore(BlogCatalog)
  /\ ops = [p \in Procs |-> Idle(BlogCatalog)]
  /\ scen = NoScen
  /\ \E idSet \in SUBSET ArgIds, value \in ArgValues, fails \in BOOLEAN :
        probe = [coll |-> CollectionOf(idSet), value |-> value,
                 fails |-> fails, ret |-> "", io |-> << >>,
                 retV1 |-> "", ioV1 |-> << >>]

\* index.ts
CallV2 ==
  /\ probe.ret = ""
  /\ LET r == validateReference(probe.coll, "Tag", probe.value, "tags",
                                probe.fails)
     IN probe' = [probe EXCEPT !.ret = r.ret, !.io = r.io]
  /\ UNCHANGED <<catalog, config, store, ops, scen>>

\* index.js
CallV1 ==
  /\ probe.retV1 = ""
  /\ LET r == validateReferenceV1(probe.coll, "Tag", probe.value, "tags",
                                  probe.fails)
     IN probe' = [probe EXCEPT !.retV1 = r.ret, !.ioV1 = r.io]
  /\ UNCHANGED <<catalog, config, store, ops, scen>>

NextVersions ==
  \/ CallV2
  \/ CallV1

SpecVersions == InitVersions /\ [][NextVersions]_vars

(***************************************************************************)
(* SpecRepeat: the manual API called twice with the same input.  The first *)
(* call runs in slot 1; the caller then repeats it in slot 2, on the same  *)
(* model with the same data object (the same instance), nothing else       *)
(* running in between.  The store holds any Users and Tags.                *)
(***************************************************************************)
TargetStores ==
  {[m \in NamesOf(BlogCatalog) |->
      IF m = "User" THEN CollectionOf(users)
      ELSE IF m = "Tag" THEN CollectionOf(tags)
      ELSE << >>] : users \in SUBSET Ids, tags \in SUBSET Ids}

InitRepeat ==
  /\ catalog = BlogCatalog
  /\ config = ReferenceCheck(NoKeys)
  /\ store \in TargetStores
  /\ ops = [p \in Procs |-> Idle(BlogCatalog)]
  /\ scen = NoScen
  /\ probe = NoProbe

CallAgain(p) ==
  /\ ops[1].phase = "done"
  /\ ops[p].phase = "idle"
  /\ \E failAt \in FieldFailAts[catalog][ops[1].model] :
        \/ /\ ops[1].kind = "validateReferences"
           /\ ValidateReferencesCall(p, ops[1].model, ops[1].doc.vals, failAt)
        \/ /\ ops[1].kind = "checkReferences"
           /\ CheckReferencesCall(p, ops[1].model, ops[1].doc.vals, failAt)

NextRepeat ==
  \/ ValidateReferencesStep(1)
  \/ CheckReferencesStep(1)
  \/ CallAgain(2)

SpecRepeat == InitRepeat /\ [][NextRepeat]_vars

(***************************************************************************)
(* SpecConcurrent: a save (slot 1) and a delete (slot 2) in flight at the  *)
(* same time.  A hook is an async function: its lookups are awaited, and   *)
(* the write it precedes is issued after it has called next(), so the      *)
(* other operation's hook and write can come in between.  An operation is  *)
(* two steps here: its hook, against the store as it is then, and its      *)
(* write, against the store as it is then.                                 *)
(***************************************************************************)
\* the pre('save') hook of document.save(), the write still to come
BeginSave(p, m, doc, failAt) ==
  /\ ops[p].phase = "idle"
  /\ LET hooked == config.enableSave
         out == IF hooked THEN preSave(catalog, store, m, doc, failAt)
                ELSE NotHooked
     IN ops' = [ops EXCEPT ![p] = Op("hooked", "save", m, doc, QueryAll,
                                     NoUpdate, hooked, out, FALSE, store)]
  /\ UNCHANGED <<catalog, config, store, scen, probe>>

\* the pre hook of Model.deleteOne / deleteMany, the write still to come
BeginDelete(p, m, query, many, failAt) ==
  /\ ops[p].phase = "idle"
  /\ LET hooked == config.enableDelete
         out == IF hooked THEN preDelete(catalog, store, m, query, failAt)
                ELSE NotHooked
     IN ops' = [ops EXCEPT ![p] =
                  Op("hooked", IF many THEN "deleteMany" ELSE "deleteOne", m,
                     NoDoc, query, NoUpdate, hooked, out, FALSE, store)]
  /\ UNCHANGED <<catalog, config, store, scen, probe>>

\* the write of an operation whose hook has run
WriteOf(o, st) ==
  IF o.kind = "save" THEN [st EXCEPT ![o.model] = SaveWrite(@, o.doc)]
  ELSE [st EXCEPT ![o.model] = DeleteWrite(@, o.query, o.kind = "deleteMany")]

\* mutant: the hook's check is made again at the time of the write
Commit_rechecks(p) ==
  /\ ops[p].phase = "hooked"
  /\ LET o == ops[p]
         again == IF ~o.hooked THEN NotHooked
                  ELSE IF o.kind = "save"
                  THEN preSave(catalog, store, o.model, o.doc, 0)
                  ELSE preDelete(catalog, store, o.model, o.query, 0)
         go == Proceeds(o) /\ Proceeds(again)
     IN /\ ops' = [ops EXCEPT ![p] = [o EXCEPT !.phase = "done",
                                               !.applied = go]]
        /\ store' = IF go THEN WriteOf(o, store) ELSE store
  /\ UNCHANGED <<catalog, config, scen, probe>>

\* after next(): the operation is carried out, unless next was given an
\* error
Commit(p) ==
  /\ ops[p].phase = "hooked"
  /\ LET o == ops[p]
     IN /\ ops' = [ops EXCEPT ![p] = [o EXCEPT !.phase = "done",
                                               !.applied = Proceeds(o)]]
        /\ store' = IF Proceeds(o) THEN WriteOf(o, store) ELSE store
  /\ UNCHANGED <<catalog, config, scen, probe>>

BeginSaveStep(p) ==
  /\ ops[p].phase = "idle"
  /\ \E m \in NamesOf(catalog) :
        \E doc \in DocsOf[catalog][m], failAt \in FieldFailAts[catalog][m] :
           BeginSave(p, m, doc, failAt)

BeginDeleteStep(p) ==
  /\ ops[p].phase = "idle"
  /\ \E m \in NamesOf(catalog) :
        \E q \in DeleteForms, failAt \in DeleteFailAts[catalog] :
           BeginDelete(p, m, q[1], q[2], failAt)

InitConcurrent ==
  /\ catalog = UserPostCatalog
  /\ config = ReferenceCheck(NoKeys)
  /\ store \in Stores(UserPostCatalog)
  /\ ops = [p \in Procs |-> Idle(UserPostCatalog)]
  /\ scen = NoScen
  /\ probe = NoProbe

NextConcurrent ==
  \/ BeginSaveStep(1)
  \/ BeginDeleteStep(2)
  \/ Commit(1)
  \/ Commit(2)

SpecConcurrent == InitConcurrent /\ [][NextConcurrent]_vars

(***************************************************************************)
(* SpecSequential: the save and update hooks step by step, one step per    *)
(* turn of their loop and per await.  ops[1] is the operation, its io the  *)
(* lookups the store has answered so far; probe is the hook's position:    *)
(*   phase    "loop" (at the head of the for loop), "await" (suspended on  *)
(*            validateReference), "done"                                   *)
(*   k        the index in refFields of the field the loop is at           *)
(*   pending  the lookups issued and not yet answered                      *)
(*   failAt   which lookup of the run the store fails (0: none)            *)
(***************************************************************************)
Position(phase, k, pending, failAt) ==
  [phase |-> phase, k |-> k, pending |-> pending, failAt |-> failAt]

\* what the hook reads a field's value from: this.get, or the payload
HookSource(o) == IF o.kind = "save" THEN o.doc.vals ELSE o.update.top

\* the fields the loop runs over: none when the hook returns before it
\* (no payload)
HookFields(o) ==
  IF o.kind # "save" /\ ~o.update.present THEN << >>
  ELSE getRefFields(PathsOf(catalog, o.model))

\* the hook is entered
BeginHook(p, kind, m, doc, query, update, failAt) ==
  /\ ops[p].phase = "idle"
  /\ probe = NoProbe
  /\ ops' = [ops EXCEPT ![p] = Op("hook", kind, m, doc, query, update, TRUE,
                                  Outcome(NoError, << >>, 0, << >>), FALSE,
                                  store)]
  /\ probe' = Position("loop", 1, << >>, failAt)
  /\ UNCHANGED <<catalog, config, store, scen>>

\* if (!value) continue
SkipField(p) ==
  /\ ops[p].phase = "hook" /\ probe.phase = "loop"
  /\ probe.k <= Len(HookFields(ops[p]))
  /\ Falsy(KeyValue(HookSource(ops[p]), HookFields(ops[p])[probe.k].field))
  /\ probe' = [probe EXCEPT !.k = @ + 1]
  /\ UNCHANGED <<catalog, config, store, ops, scen>>

\* await validateReference(model, value, fieldObj.field): the lookup it
\* issues is outstanding; when it issues none (an empty array) it has
\* returned true
IssueLookup(p) ==
  /\ ops[p].phase = "hook" /\ probe.phase = "loop"
  /\ probe.k <= Len(HookFields(ops[p]))
  /\ LET fieldObj == HookFields(ops[p])[probe.k]
         value == KeyValue(HookSource(ops[p]), fieldObj.field)
         r == validateReference(store[fieldObj.refTo], fieldObj.refTo, value,
                                fieldObj.field, FALSE)
     IN /\ ~Falsy(value)
        /\ probe' = IF r.io = << >> THEN [probe EXCEPT !.k = @ + 1]
                    ELSE [probe EXCEPT !.phase = "await",
                                       !.pending = @ \o r.io]
  /\ UNCHANGED <<catalog, config, store, ops, scen>>

\* mutant: an invalid field is noted and the loop goes on to the next one
AnswerLookup_keepsGoing(p) ==
  /\ ops[p].phase = "hook" /\ probe.phase = "await"
  /\ LET o == ops[p]
         fieldObj == HookFields(o)[probe.k]
         value == KeyValue(HookSource(o), fieldObj.field)
         r == validateReference(store[fieldObj.refTo], fieldObj.refTo, value,
                                fieldObj.field, FailsNext(probe.failAt, o.io))
         err == IF r.ret = "throw"
                THEN DatabaseError(fieldObj.field, DriverError(fieldObj.refTo))
                ELSE IF r.ret = "false" /\ o.err = NoError
                THEN ReferenceValidationError(value, fieldObj.refTo)
                ELSE o.err
     IN IF r.ret = "throw"
        THEN /\ ops' = [ops EXCEPT ![p] = [o EXCEPT !.phase = "done",
                                                    !.io = @ \o r.io,
                                                    !.err = err,
                                                    !.nexts = 1]]
             /\ probe' = [probe EXCEPT !.phase = "done",
                                       !.pending = Tail(@)]
        ELSE /\ ops' = [ops EXCEPT ![p] = [o EXCEPT !.io = @ \o r.io,
                                                    !.err = err]]
             /\ probe' = [probe EXCEPT !.phase = "loop", !.k = @ + 1,
                                       !.pending = Tail(@)]
  /\ UNCHANGED <<catalog, config, store, scen>>

\* the store answers the outstanding lookup and the hook resumes: on to
\* the next field when the reference is valid, next(error) otherwise
AnswerLookup(p) ==
  /\ ops[p].phase = "hook" /\ probe.phase = "await"
  /\ LET o == ops[p]
         fieldObj == HookFields(o)[probe.k]
         value == KeyValue(HookSource(o), fieldObj.field)
         r == validateReference(store[fieldObj.refTo], fieldObj.refTo, value,
                                fieldObj.field, FailsNext(probe.failAt, o.io))
     IN IF r.ret = "true"
        THEN /\ ops' = [ops EXCEPT ![p] = [o EXCEPT !.io = @ \o r.io]]
             /\ probe' = [probe EXCEPT !.phase = "loop", !.k = @ + 1,
                                       !.pending = Tail(@)]
        ELSE /\ ops' = [ops EXCEPT ![p] =
                          [o EXCEPT !.phase = "done",
                                    !.io = @ \o r.io,
                                    !.err = IF r.ret = "throw"
                                            THEN DatabaseError(
                                                   fieldObj.field,
                                                   DriverError(fieldObj.refTo))
                                            ELSE ReferenceValidationError(
                                                   value, fieldObj.refTo),
                                    !.nexts = 1]]
             /\ probe' = [probe EXCEPT !.phase = "done",
                                       !.pending = Tail(@)]
  /\ UNCHANGED <<catalog, config, store, scen>>

\* the loop is over: next(), or next(error) when an error was noted, and
\* the operation is carried out in the first case
CallNext(p) ==
  /\ ops[p].phase = "hook" /\ probe.phase = "loop"
  /\ probe.k > Len(HookFields(ops[p]))
  /\ LET o == ops[p]
         go == Proceeds(o)
     IN /\ ops' = [ops EXCEPT ![p] = [o EXCEPT !.phase = "done",
                                               !.nexts = 1,
                                               !.applied = go]]
        /\ store' =
             IF ~go THEN store
             ELSE IF o.kind = "save"
             THEN [store EXCEPT ![o.model] = SaveWrite(@, o.doc)]
             ELSE [store EXCEPT ![o.model] =
                     UpdateWrite(@, o.query, o.update, o.kind = "updateMany")]
  /\ probe' = [probe EXCEPT !.phase = "done"]
  /\ UNCHANGED <<catalog, config, scen>>

BeginHookStep(p) ==
  /\ ops[p].phase = "idle"
  /\ \E m \in NamesOf(catalog) :
        \E failAt \in FieldFailAts[catalog][m] :
           \/ \E doc \in DocsOf[catalog][m] :
                 BeginHook(p, "save", m, doc, QueryAll, NoUpdate, failAt)
           \/ \E q \in UpdateForms, update \in UpdatesOf[catalog][m] :
                 BeginHook(p, IF q[2] THEN "updateMany" ELSE "updateOne", m,
                           NoDoc, q[1], update, failAt)

InitSequential ==
  /\ catalog = BlogCatalog
  /\ config = ReferenceCheck(NoKeys)
  /\ store \in TargetStores
  /\ ops = [p \in Procs |-> Idle(BlogCatalog)]
  /\ scen = NoScen
  /\ probe = NoProbe

NextSequential ==
  \/ BeginHookStep(1)
  \/ SkipField(1)
  \/ IssueLookup(1)
  \/ AnswerLookup(1)
  \/ CallNext(1)

SpecSequential == InitSequential /\ [][NextSequential]_vars

(***************************************************************************)
(* SpecDelete: deletes, one at a time, under the default options over a    *)
(* catalog in which two models reference User, and a store that already    *)
(* holds documents.                                                        *)
(***************************************************************************)
InitDelete ==
  /\ catalog = ForumCatalog
  /\ config = ReferenceCheck(NoKeys)
  /\ store \in Stores(ForumCatalog)
  /\ ops = [p \in Procs |-> Idle(ForumCatalog)]
  /\ scen = NoScen
  /\ probe = NoProbe

NextDelete ==
  \/ DeleteStep(1)
  \/ Return(1)

SpecDelete == InitDelete /\ [][NextDelete]_vars

(***************************************************************************)
(* SpecNested: deletes, one at a time, under the default options over a    *)
(* catalog whose only reference is declared inside a nested schema, and a  *)
(* store that already holds documents.                                     *)
(***************************************************************************)
InitNested ==
  /\ catalog = ThreadCatalog
  /\ config = ReferenceCheck(NoKeys)
  /\ store \in Stores(ThreadCatalog)
  /\ ops = [p \in Procs |-> Idle(ThreadCatalog)]
  /\ scen = NoScen
  /\ probe = NoProbe

NextNested ==
  \/ DeleteStep(1)
  \/ Return(1)

SpecNested == InitNested /\ [][NextNested]_vars

(***************************************************************************)
(* SpecSchema: getRefFields and the delete hook's discovery applied to the *)
(* schemas of a database of three models, A, B and C, whose paths are of   *)
(* every kind: plain, a reference, an array of references, a subdocument   *)
(* or an array of subdocuments whose schema holds a reference, and an      *)
(* array that carries a reference beside a nested schema.                  *)
(***************************************************************************)
SchemaNames == {"A", "B", "C"}

PathKinds(field) ==
  {Path(field, "", FALSE, << >>)}
  \cup {Path(field, r, a, << >>) : r \in SchemaNames, a \in BOOLEAN}
  \cup {Path(field, "", a, <<SubPath("item", r)>>) :
          r \in SchemaNames, a \in BOOLEAN}
  \cup {Path(field, "A", TRUE, <<SubPath("note", ""), SubPath("item", "B")>>)}

SchemaCatalogs ==
  {<< [name |-> "A", paths |-> <<IdPath, f, g>>],
      [name |-> "B", paths |-> <<IdPath, h>>],
      [name |-> "C", paths |-> <<IdPath, k>>] >> :
     f \in PathKinds("f"), g \in PathKinds("g"),
     h \in PathKinds("f"), k \in PathKinds("f")}

InitSchema ==
  /\ catalog \in SchemaCatalogs
  /\ config = ReferenceCheck(NoKeys)
  /\ store = EmptyStore(catalog)
  /\ ops = [p \in Procs |-> Idle(catalog)]
  /\ scen = NoScen
  /\ \E m \in SchemaNames :
        probe = [phase |-> "args", call |-> "", model |-> m,
                 paths |-> PathsOf(catalog, m),
                 refFields |-> << >>, refModels |-> << >>]

\* getRefFields(schema) of the model's schema
CallGetRefFields ==
  /\ probe.phase = "args"
  /\ probe' = [probe EXCEPT
                 !.phase = "done", !.call = "getRefFields",
                 !.refFields = getRefFields(PathsOf(catalog, probe.model))]
  /\ UNCHANGED <<catalog, config, store, ops, scen>>

\* the discovery of a delete on the model
Discover ==
  /\ probe.phase = "args"
  /\ probe' = [probe EXCEPT
                 !.phase = "done", !.call = "discover",
                 !.refModels = RefModelsFrom(catalog, 1, probe.model)]
  /\ UNCHANGED <<catalog, config, store, ops, scen>>

NextSchema ==
  \/ CallGetRefFields
  \/ Discover

SpecSchema == InitSchema /\ [][NextSchema]_vars

(***************************************************************************)
(* Notions the claims are stated in, read off the schemas and the store    *)
(* directly.                                                               *)
(***************************************************************************)
\* the operation of slot 1, where operations run one at a time
TheOp == ops[1]

Done(o) == o.phase = "done"

\* (field, target) of every reference a schema declares, nested ones under
\* the array field's name
DeclaredRefs(paths) ==
  {<<paths[i].field, paths[i].ref>> : i \in {j \in DOMAIN paths :
                                               paths[j].ref # ""}}
  \cup UNION {{<<paths[i].field, paths[i].sub[k].ref>> :
                 k \in {l \in DOMAIN paths[i].sub : paths[i].sub[l].ref # ""}} :
              i \in {j \in DOMAIN paths : paths[j].isArray}}

\* the value holds an identifier that no document of the target carries
Dangling(st, target, value) ==
  \E id \in Range(value.ids) : id \notin DocIds(st[target])

\* some reference field of the object (document, payload) dangles
SomeDangling(cat, st, m, obj) ==
  \E r \in DeclaredRefs(PathsOf(cat, m)) :
     Dangling(st, r[2], KeyValue(obj, r[1]))

\* the document is stored, as given, in the collection
Stored(st, m, doc) == \E i \in DOMAIN st[m] : st[m][i] = doc

(***************************************************************************)
(* C1.  With the save hook enabled, a save of a document in which some     *)
(* reference field holds an identifier, or an array containing one, that   *)
(* no document of the field's target collection carries is aborted: the    *)
(* hook calls next once, with an error, and the store is left as it was.   *)
(***************************************************************************)
C1_SaveOfDanglingReferenceAborts ==
  LET o == TheOp
  IN (Done(o) /\ o.kind = "save" /\ o.hooked
      /\ SomeDangling(catalog, o.pre, o.model, o.doc.vals))
     => /\ o.err.type # "none"
        /\ o.nexts = 1
        /\ ~o.applied
        /\ store = o.pre

\* an Article whose tags name one existing and one missing Tag was refused
C1_Witness ==
  LET o == TheOp
  IN /\ Done(o) /\ o.kind = "save" /\ o.hooked /\ o.model = "Article"
     /\ Len(o.doc.vals["tags"].ids) = 2
     /\ \E id \in Range(o.doc.vals["tags"].ids) : id \in DocIds(o.pre["Tag"])
     /\ Dangling(o.pre, "Tag", o.doc.vals["tags"])
     /\ o.err = ReferenceValidationError(o.doc.vals["tags"], "Tag")
     /\ ~Stored(store, "Article", o.doc)

(***************************************************************************)
(* C2.  With the save hook enabled, a save of a document all of whose      *)
(* reference fields resolve (every lookup is answered and finds its        *)
(* documents) succeeds: the hook calls next() once with no error and the   *)
(* document is stored as it was given, nothing else changing.              *)
(***************************************************************************)
C2_SaveOfResolvingReferencesProceeds ==
  LET o == TheOp
  IN (Done(o) /\ o.kind = "save" /\ o.hooked /\ LookupsOk(o)
      /\ ~SomeDangling(catalog, o.pre, o.model, o.doc.vals))
     => /\ o.err = NoError
        /\ o.nexts = 1
        /\ o.applied
        /\ Stored(store, o.model, o.doc)
        /\ DocIds(store[o.model]) = DocIds(o.pre[o.model]) \cup {o.doc.id}
        /\ \A i \in DOMAIN store[o.model] :
              store[o.model][i].id # o.doc.id
              => Stored(o.pre, o.model, store[o.model][i])
        /\ \A m \in DOMAIN store : m # o.model => store[m] = o.pre[m]

\* a Post naming an existing author and an existing editor was stored after
\* two lookups
C2_Witness ==
  LET o == TheOp
  IN /\ Done(o) /\ o.kind = "save" /\ o.hooked /\ o.model = "Post"
     /\ o.doc.vals["author"].tag = "id" /\ o.doc.vals["editor"].tag = "id"
     /\ ~SomeDangling(catalog, o.pre, o.model, o.doc.vals)
     /\ Len(o.io) = 2 /\ LookupsOk(o)
     /\ Stored(store, "Post", o.doc)

(***************************************************************************)
(* C3.  With the delete hook enabled, a delete-family operation on a       *)
(* document that a document of another collection references, the store    *)
(* answering every call, fails with the referential-integrity error and    *)
(* does not proceed: every document the operation would remove that is     *)
(* referenced is still present afterwards.                                 *)
(***************************************************************************)
\* a document of another collection holds id in a field that references m
Referenced(cat, st, m, id) ==
  \E k \in DOMAIN cat :
     /\ cat[k].name # m
     /\ \E r \in DeclaredRefs(cat[k].paths) :
           /\ r[2] = m
           /\ \E i \in DOMAIN st[cat[k].name] :
                 id \in Range(KeyValue(st[cat[k].name][i].vals, r[1]).ids)

\* the identifiers of the documents the delete acts on
DeleteTargetIds(o) ==
  {o.pre[o.model][i].id :
     i \in Targets(o.pre[o.model], o.query, o.kind = "deleteMany")}

C3_DeleteOfReferencedDocumentFails ==
  LET o == TheOp
  IN (Done(o) /\ IsDelete(o) /\ o.hooked /\ LookupsOk(o))
     => \A id \in DeleteTargetIds(o) :
           Referenced(catalog, o.pre, o.model, id)
           => /\ o.err.type = "ReferentialIntegrity"
              /\ ~o.applied
              /\ id \in DocIds(store[o.model])

(***************************************************************************)
(* C4.  Under the default options, starting from an empty store: create    *)
(* User u; create Post p with author u, which succeeds; delete u, which    *)
(* fails with the referential-integrity error naming u and Post, u         *)
(* remaining; delete p, which succeeds; delete u, which now succeeds.      *)
(***************************************************************************)
C4_UserPostScenario ==
  LET o == TheOp
  IN (Done(o) /\ config = ReferenceCheck(NoKeys))
     => /\ scen.step = 1 => (o.err = NoError /\ scen.u \in DocIds(store["User"]))
        /\ scen.step = 2
           => /\ o.err = NoError /\ o.applied
              /\ Stored(store, "Post", o.doc)
              /\ scen.u \in DocIds(store["User"])
        /\ scen.step = 3
           => /\ o.err = ReferentialIntegrityError(scen.u, "Post")
              /\ ~o.applied
              /\ store = o.pre
              /\ scen.u \in DocIds(store["User"])
        /\ scen.step = 4
           => /\ o.err = NoError /\ o.applied
              /\ scen.p \notin DocIds(store["Post"])
        /\ scen.step = 5
           => /\ o.err = NoError /\ o.applied
              /\ scen.u \notin DocIds(store["User"])

\* the whole scenario has been run
C4_Witness == Done(TheOp) /\ scen.step = 5 /\ TheOp.hooked

(***************************************************************************)
(* C5.  For a non-empty array, validateReference (the store answering)     *)
(* returns true exactly when every identifier of the array is carried by a *)
(* document of the target collection, whatever the repetitions and the     *)
(* order of the array's elements.                                          *)
(***************************************************************************)
C5_ArrayValidIffEveryDistinctIdExists ==
  (/\ probe.phase = "done"
   /\ probe.value.tag = "array"
   /\ Len(probe.value.ids) > 0
   /\ ~probe.fails)
  => /\ probe.ret \in {"true", "false"}
     /\ probe.ret = "true" <=> Range(probe.value.ids) \subseteq DocIds(probe.coll)

\* target {1, 2}: [1, 1, 2] is valid
C5_Witness ==
  /\ probe.phase = "done"
  /\ probe.value = Arr(<<1, 1, 2>>)
  /\ DocIds(probe.coll) = {1, 2}
  /\ ~probe.fails
  /\ probe.ret = "true"

(***************************************************************************)
(* C6.  With the update hook enabled, an update-family operation whose     *)
(* payload has a reference field as a top-level key with a value that does *)
(* not resolve is aborted and not applied; the store answering, the error  *)
(* is the reference-validation error of the first such field in extractor  *)
(* order, and the lookup for that field is the last call issued.           *)
(***************************************************************************)
IsUpdate(o) == o.kind \in {"updateOne", "updateMany"}

\* positions, in extractor order, of the fields whose payload value dangles
DanglingAt(cat, st, m, obj) ==
  LET refFields == getRefFields(PathsOf(cat, m))
  IN {k \in DOMAIN refFields :
        Dangling(st, refFields[k].refTo, KeyValue(obj, refFields[k].field))}

C6_UpdateWithDanglingKeyAbortsAtFirst ==
  LET o == TheOp
      refFields == getRefFields(PathsOf(catalog, o.model))
      bad == DanglingAt(catalog, o.pre, o.model, o.update.top)
  IN (Done(o) /\ IsUpdate(o) /\ o.hooked /\ o.update.present /\ bad # {})
     => /\ o.err.type # "none"
        /\ o.nexts = 1
        /\ ~o.applied
        /\ store = o.pre
        /\ LookupsOk(o)
           => LET first == refFields[Min(bad)]
              IN /\ o.err = ReferenceValidationError(o.update.top[first.field],
                                                     first.refTo)
                 /\ o.io[Len(o.io)].fields = <<first.field>>
                 /\ \A i \in DOMAIN o.io :
                       \A k \in bad : k # Min(bad)
                          => o.io[i].fields # <<refFields[k].field>>

\* author and editor both dangle, each with its own value: the error is
\* the author's
C6_Witness ==
  LET o == TheOp
  IN /\ Done(o) /\ o.kind = "updateMany" /\ o.hooked /\ o.model = "Post"
     /\ o.pre["Post"] # << >>
     /\ "author" \in DOMAIN o.update.top /\ "editor" \in DOMAIN o.update.top
     /\ o.update.top["author"] # o.update.top["editor"]
     /\ Cardinality(DanglingAt(catalog, o.pre, "Post", o.update.top)) = 2
     /\ o.err = ReferenceValidationError(o.update.top["author"], "User")
     /\ Len(o.io) = 1
     /\ ~o.applied

(***************************************************************************)
(* C7.  An update-family operation issues no lookup for a reference field  *)
(* that is not a top-level key of its payload; one whose payload has no    *)
(* reference field among its top-level keys issues no lookup at all and    *)
(* proceeds.                                                               *)
(***************************************************************************)
C7_UpdateLooksUpOnlyPayloadKeys ==
  LET o == TheOp
      refs == {r[1] : r \in DeclaredRefs(PathsOf(catalog, o.model))}
  IN (Done(o) /\ IsUpdate(o))
     => /\ \A i \in DOMAIN o.io :
              /\ Range(o.io[i].fields) \subseteq DOMAIN o.update.top
              /\ o.io[i].call \in {"exists", "countDocuments"}
        /\ (DOMAIN o.update.top \cap refs = {})
           => /\ o.io = << >>
              /\ o.err = NoError
              /\ o.applied

\* one reference field is a key, another is under $set or left out: one
\* lookup, for the key
C7_Witness ==
  LET o == TheOp
  IN /\ Done(o) /\ IsUpdate(o) /\ o.hooked /\ o.model = "Post"
     /\ DOMAIN o.update.top = {"author"}
     /\ Len(o.io) = 1
     /\ o.io[1].fields = <<"author">>

\* a payload of $set alone: no lookup, and the update is applied
C7_WitnessSetOnly ==
  LET o == TheOp
  IN /\ Done(o) /\ IsUpdate(o) /\ o.hooked /\ o.model = "Post"
     /\ o.update.present /\ DOMAIN o.update.top = {}
     /\ DOMAIN o.update.set = {"author"}
     /\ o.io = << >> /\ o.applied

(***************************************************************************)
(* C8.  When no other model has a path referencing the model under         *)
(* deletion (discovery finds none), the delete hook issues no aggregate    *)
(* query on any collection: its only call is the findOne of the document,  *)
(* and, that call answered, the delete proceeds and removes what it        *)
(* matches.                                                                *)
(***************************************************************************)
\* the other models with a path whose ref option is m: what discovery is
\* to find
Referrers(cat, m) ==
  {cat[k].name : k \in {j \in DOMAIN cat :
                           /\ cat[j].name # m
                           /\ \E i \in DOMAIN cat[j].paths :
                                 cat[j].paths[i].ref = m}}

C8_NoReferencingModelNoAggregate ==
  LET o == TheOp
  IN (/\ Done(o) /\ IsDelete(o) /\ o.hooked
      /\ Referrers(catalog, o.model) = {})
     => /\ \A i \in DOMAIN o.io : o.io[i].call # "aggregate"
        /\ Len(o.io) = 1 /\ o.io[1].call = "findOne"
        /\ o.nexts = 1
        /\ LookupsOk(o)
           => /\ o.err = NoError
              /\ o.applied
              /\ DocIds(store[o.model])
                   = DocIds(o.pre[o.model]) \ DeleteTargetIds(o)

\* a stored Post, which nothing references, is deleted
C8_Witness ==
  LET o == TheOp
  IN /\ Done(o) /\ IsDelete(o) /\ o.hooked /\ o.model = "Post"
     /\ o.query.kind = "id"
     /\ o.query.id \in DocIds(o.pre["Post"])
     /\ o.io = <<Lookup("findOne", "Post", << >>, <<o.query.id>>, TRUE)>>
     /\ o.applied
     /\ o.query.id \notin DocIds(store["Post"])

(***************************************************************************)
(* C9.  An operation of a kind whose switch (enableSave, enableUpdate,     *)
(* enableDelete) is false runs no hook: no call to the store, no call of   *)
(* next, no error, and the write is applied.  The kinds whose switch is    *)
(* true are checked as under the defaults, whatever the other switches: a  *)
(* save or an update with a dangling reference is aborted, and so is the   *)
(* delete by _id of a referenced document.                                 *)
(***************************************************************************)
Enabled(cfg, o) ==
  IF o.kind = "save" THEN cfg.enableSave
  ELSE IF IsUpdate(o) THEN cfg.enableUpdate
  ELSE cfg.enableDelete

C9_DisabledHookIsNotInstalled ==
  LET o == TheOp
  IN (Done(o) /\ (o.kind = "save" \/ IsUpdate(o) \/ IsDelete(o)))
     => /\ ~Enabled(config, o)
           => /\ o.io = << >> /\ o.nexts = 0
              /\ o.err = NoError /\ o.applied
              /\ o.kind = "save" => Stored(store, o.model, o.doc)
              /\ IsDelete(o)
                 => DocIds(store[o.model])
                      = DocIds(o.pre[o.model]) \ DeleteTargetIds(o)
        /\ Enabled(config, o)
           => /\ o.nexts = 1
              /\ (o.kind = "save"
                  /\ SomeDangling(catalog, o.pre, o.model, o.doc.vals))
                 => (o.err.type # "none" /\ ~o.applied)
              /\ (IsUpdate(o) /\ o.update.present
                  /\ SomeDangling(catalog, o.pre, o.model, o.update.top))
                 => (o.err.type # "none" /\ ~o.applied)
              /\ (o.kind = "deleteOne" /\ o.query.kind = "id"
                  /\ Referenced(catalog, o.pre, o.model, o.query.id)
                  /\ o.query.id \in DocIds(o.pre[o.model]))
                 => (o.err.type # "none" /\ ~o.applied)

\* enableDelete = false, the save hook on: a referenced User is deleted
C9_Witness ==
  LET o == TheOp
  IN /\ ~config.enableDelete /\ config.enableSave
     /\ Done(o) /\ o.kind = "deleteOne" /\ o.model = "User"
     /\ o.query.kind = "id"
     /\ o.query.id \in DocIds(o.pre["User"])
     /\ Referenced(catalog, o.pre, "User", o.query.id)
     /\ o.applied
     /\ o.query.id \notin DocIds(store["User"])

\* enableSave = false, the delete hook on: the delete of a referenced User
\* is still refused
C9_WitnessOthersUnaffected ==
  LET o == TheOp
  IN /\ ~config.enableSave /\ config.enableDelete
     /\ Done(o) /\ o.kind = "deleteOne" /\ o.model = "User"
     /\ o.query.kind = "id"
     /\ Referenced(catalog, o.pre, "User", o.query.id)
     /\ o.err.type = "ReferentialIntegrity"
     /\ store = o.pre

(***************************************************************************)
(* C10.  validateReferences(data) and checkReferences(), the store         *)
(* answering, raise nothing and return one ValidationResult per reference  *)
(* field whose value is present, in extractor order, none for the others;  *)
(* isValid is what validateReference returns for the value, false when a   *)
(* reference is invalid.                                                   *)
(***************************************************************************)
IsManual(o) == o.kind \in {"validateReferences", "checkReferences"}

C10_ManualApiResults ==
  LET o == TheOp
      refFields == getRefFields(PathsOf(catalog, o.model))
      Present(f) == ~Falsy(KeyValue(o.doc.vals, f.field))
      present == SelectSeq(refFields, Present)
  IN (Done(o) /\ IsManual(o) /\ LookupsOk(o))
     => /\ o.err = NoError
        /\ o.nexts = 0
        /\ Len(o.results) = Len(present)
        /\ \A i \in DOMAIN present :
              LET value == o.doc.vals[present[i].field]
              IN /\ o.results[i]
                      = ValidationResult(
                          present[i].field, present[i].refTo, value,
                          validateReference(o.pre[present[i].refTo],
                                            present[i].refTo, value,
                                            present[i].field, FALSE).ret
                            = "true")
                 /\ o.results[i].isValid
                      <=> ~Dangling(o.pre, present[i].refTo, value)

\* author invalid, editor valid: two results, the first false
C10_Witness ==
  LET o == TheOp
  IN /\ Done(o) /\ IsManual(o) /\ o.model = "Post"
     /\ Len(o.results) = 2
     /\ o.results[1].field = "author" /\ ~o.results[1].isValid
     /\ o.results[2].field = "editor" /\ o.results[2].isValid
     /\ o.err = NoError

\* author absent, editor invalid: one result
C10_WitnessAbsentSkipped ==
  LET o == TheOp
  IN /\ Done(o) /\ o.kind = "validateReferences" /\ o.model = "Post"
     /\ "author" \notin DOMAIN o.doc.vals
     /\ Len(o.results) = 1
     /\ o.results[1].field = "editor" /\ ~o.results[1].isValid

(***************************************************************************)
(* C11.  The manual API called twice with the same input against an        *)
(* unchanged store: when the store answers the lookups of both calls, the  *)
(* two calls return the same ValidationResults; whenever the store fails   *)
(* the same lookup (or none) in both, what they come to is the same in     *)
(* every respect.  Neither call changes the store.                         *)
(***************************************************************************)
\* the positions of the calls the store failed
FailedAt(o) == {i \in DOMAIN o.io : ~o.io[i].ok}

C12_LookupFailureIsDatabaseError ==
  LET o == TheOp
  IN (/\ Done(o)
      /\ o.kind = "save" \/ IsUpdate(o) \/ IsManual(o)
      /\ FailedAt(o) # {})
     => LET failed == o.io[Len(o.io)]
        IN /\ FailedAt(o) = {Len(o.io)}
           /\ Len(failed.fields) = 1
           /\ o.err = DatabaseError(failed.fields[1],
                                    DriverError(failed.model))
           /\ o.err.type = "Database"
           /\ o.results = << >>
           /\ ~o.applied
           /\ store = o.pre
           /\ IsManual(o) => o.nexts = 0
           /\ ~IsManual(o) => o.nexts = 1

\* the author's lookup answered, the editor's failed
C12_Witness ==
  LET o == TheOp
  IN /\ Done(o) /\ o.kind = "save" /\ o.model = "Post"
     /\ Len(o.io) = 2 /\ o.io[1].ok /\ ~o.io[2].ok
     /\ o.err = DatabaseError("editor", DriverError("User"))
     /\ ~o.applied

\* the manual API raises the error too
C12_WitnessManual ==
  LET o == TheOp
  IN /\ Done(o) /\ o.kind = "checkReferences" /\ o.model = "Article"
     /\ FailedAt(o) = {1}
     /\ o.err = DatabaseError("tags", DriverError("Tag"))
     /\ o.results = << >>

(***************************************************************************)
(* C13.  As claimed: the error that aborts a save or an update because of  *)
(* an unresolved reference carries the offending field's name, the         *)
(* offending value and the target collection's name.                       *)
(***************************************************************************)
\* what the hook reads the fields' values from
Source(o) == IF o.kind = "save" THEN o.doc.vals ELSE o.update.top

C13_ErrorCarriesFieldValueTarget ==
  LET o == TheOp
      refFields == getRefFields(PathsOf(catalog, o.model))
      bad == DanglingAt(catalog, o.pre, o.model, Source(o))
  IN (/\ Done(o) /\ (o.kind = "save" \/ IsUpdate(o))
      /\ o.err.type = "ReferenceValidation")
     => /\ bad # {}
        /\ o.err.field = refFields[Min(bad)].field
        /\ o.err.value = KeyValue(Source(o), refFields[Min(bad)].field)
        /\ o.err.model = refFields[Min(bad)].refTo

(***************************************************************************)
(* C13, amended.  The error that aborts a save or an update because of an  *)
(* unresolved reference carries the offending value and the target         *)
(* collection's name, and nothing else: not the field's name.              *)
(***************************************************************************)
C13_ErrorCarriesValueAndTarget ==
  LET o == TheOp
      refFields == getRefFields(PathsOf(catalog, o.model))
      bad == DanglingAt(catalog, o.pre, o.model, Source(o))
  IN (/\ Done(o) /\ (o.kind = "save" \/ IsUpdate(o))
      /\ o.err.type = "ReferenceValidation")
     => /\ bad # {}
        /\ o.err.value = KeyValue(Source(o), refFields[Min(bad)].field)
        /\ o.err.model = refFields[Min(bad)].refTo
        /\ o.err.field = ""
        /\ o.err.id = 0

\* the editor is the offending field; the error tells the value and User
C13_Witness ==
  LET o == TheOp
  IN /\ Done(o) /\ o.kind = "save" /\ o.model = "Post"
     /\ DanglingAt(catalog, o.pre, "Post", o.doc.vals) = {2}
     /\ o.doc.vals["author"] # o.doc.vals["editor"]
     /\ o.err.type = "ReferenceValidation"
     /\ o.err.value = o.doc.vals["editor"]
     /\ o.err.model = "User"
     /\ o.err.field = ""

(***************************************************************************)
(* C14.  When the query of a delete-family operation matches no document,  *)
(* the delete hook's only call is the findOne that finds nothing: no       *)
(* aggregate query is issued on any collection, next is called once, and,  *)
(* findOne answered, without an error; the delete then removes nothing.    *)
(***************************************************************************)
C14_DeleteMatchingNothingProceeds ==
  LET o == TheOp
  IN (/\ Done(o) /\ IsDelete(o) /\ o.hooked
      /\ Matching(o.pre[o.model], o.query) = {})
     => /\ Len(o.io) = 1
        /\ o.io[1].call = "findOne" /\ o.io[1].model = o.model
        /\ o.nexts = 1
        /\ LookupsOk(o)
           => /\ o.err = NoError
              /\ o.applied
              /\ store = o.pre

\* no User 2 to delete, while a Post is stored: Post is not queried
C14_Witness ==
  LET o == TheOp
  IN /\ Done(o) /\ IsDelete(o) /\ o.hooked /\ o.model = "User"
     /\ o.query = QueryId(2)
     /\ 2 \notin DocIds(o.pre["User"])
     /\ o.pre["Post"] # << >>
     /\ Referrers(catalog, "User") # {}
     /\ Len(o.io) = 1
     /\ o.applied

(***************************************************************************)
(* C15.  A null or undefined (absent) value and an empty array are valid   *)
(* against any collection, and validateReference issues no lookup for      *)
(* them, so a failing store makes no difference.  A save or an update      *)
(* whose reference fields carry only such values issues no lookup, is      *)
(* never aborted and is applied.                                           *)
(***************************************************************************)
\* absent, null, undefined, or an array of no element
Vacant(value) == value = Null \/ value = Arr(<< >>)

C15_VacantValuesAreValid ==
  /\ \A m \in NamesOf(catalog), fails \in BOOLEAN :
        \A value \in {Null, Arr(<< >>)} :
           validateReference(store[m], m, value, "field", fails)
             = Returned("true", << >>)
  /\ LET o == TheOp
     IN (/\ Done(o) /\ o.hooked /\ (o.kind = "save" \/ IsUpdate(o))
         /\ \A r \in DeclaredRefs(PathsOf(catalog, o.model)) :
               Vacant(KeyValue(Source(o), r[1])))
        => /\ o.io = << >>
           /\ o.err = NoError
           /\ o.nexts = 1
           /\ o.applied

\* an Article of no tags is saved while no Tag exists
C15_Witness ==
  LET o == TheOp
  IN /\ Done(o) /\ o.hooked /\ o.kind = "save" /\ o.model = "Article"
     /\ o.doc.vals["tags"] = Arr(<< >>)
     /\ o.pre["Tag"] = << >>
     /\ o.io = << >>
     /\ o.applied /\ Stored(store, "Article", o.doc)

\* a Post of no author and no editor is saved
C15_WitnessNull ==
  LET o == TheOp
  IN /\ Done(o) /\ o.hooked /\ o.kind = "save" /\ o.model = "Post"
     /\ o.doc.vals["author"] = Null /\ o.doc.vals["editor"] = Null
     /\ o.io = << >>
     /\ o.applied

(***************************************************************************)
(* C16.  For a delete whose query resolves to document d of model A, the   *)
(* store answering, the hook aborts exactly when some other model with     *)
(* reference fields targeting A holds a document in which one of those     *)
(* fields is d's identifier (or an array containing it).  The error names  *)
(* d and such a model.  Each model is asked at most once, with one query   *)
(* over all its fields that target A.                                      *)
(***************************************************************************)
\* the document findOne resolves the delete's query to
Resolved(o) == o.pre[o.model][Min(Matching(o.pre[o.model], o.query))]

\* the fields of a schema that target m, in schema order
FieldsTargeting(paths, m) ==
  LET Targets_m(path) == path.ref = m
      hit == SelectSeq(paths, Targets_m)
  IN [i \in DOMAIN hit |-> hit[i].field]

\* a document of model r holds id in a field that targets m
HoldsReference(cat, st, r, m, id) ==
  \E i \in DOMAIN st[r] :
     \E f \in Range(FieldsTargeting(PathsOf(cat, r), m)) :
        id \in Range(KeyValue(st[r][i].vals, f).ids)

C16_DeleteAbortsIffReferenced ==
  LET o == TheOp
  IN (/\ Done(o) /\ IsDelete(o) /\ o.hooked /\ LookupsOk(o)
      /\ Matching(o.pre[o.model], o.query) # {})
     => LET d == Resolved(o)
            queries == {i \in DOMAIN o.io : o.io[i].call = "aggregate"}
        IN /\ o.err.type # "none" <=> Referenced(catalog, o.pre, o.model, d.id)
           /\ o.err.type # "none"
              => /\ o.err.type = "ReferentialIntegrity"
                 /\ o.err.id = d.id
                 /\ o.err.model \in Referrers(catalog, o.model)
                 /\ HoldsReference(catalog, o.pre, o.err.model, o.model, d.id)
                 /\ ~o.applied
           /\ o.err.type = "none" => o.applied
           /\ \A i \in queries :
                 /\ o.io[i].model \in Referrers(catalog, o.model)
                 /\ o.io[i].fields
                      = FieldsTargeting(PathsOf(catalog, o.io[i].model),
                                        o.model)
                 /\ o.io[i].ids = <<d.id>>
                 /\ \A j \in queries : o.io[j].model = o.io[i].model => j = i

\* a User that only the editor field of a Post names: one query over author
\* and editor finds it
C16_Witness ==
  LET o == TheOp
  IN /\ Done(o) /\ IsDelete(o) /\ o.hooked /\ o.model = "User"
     /\ Matching(o.pre["User"], o.query) # {}
     /\ \E i \in DOMAIN o.pre["Post"] :
           /\ o.pre["Post"][i].vals["editor"] = Scalar(Resolved(o).id)
           /\ o.pre["Post"][i].vals["author"] = Null
     /\ Len(o.io) = 2
     /\ o.io[2].fields = <<"author", "editor">>
     /\ o.err = ReferentialIntegrityError(Resolved(o).id, "Post")
     /\ store = o.pre

\* a Tag that an Article holds within its array of tags
C16_WitnessArray ==
  LET o == TheOp
  IN /\ Done(o) /\ IsDelete(o) /\ o.hooked /\ o.model = "Tag"
     /\ Matching(o.pre["Tag"], o.query) # {}
     /\ o.err = ReferentialIntegrityError(Resolved(o).id, "Article")
     /\ \E i \in DOMAIN o.pre["Article"] :
           Len(o.pre["Article"][i].vals["tags"].ids) = 2

Names(cat, o, m, id) ==
  \E r \in DeclaredRefs(PathsOf(cat, o.model)) :
     r[2] = m /\ id \in Range(KeyValue(o.doc.vals, r[1]).ids)

\* both hooks have run and passed: the save's of a document that names d,
\* the delete's of d, which it found
BothPassed(s, d) ==
  /\ s.phase # "idle" /\ d.phase # "idle"
  /\ s.kind = "save" /\ d.kind = "deleteOne"
  /\ s.hooked /\ d.hooked
  /\ LookupsOk(s) /\ LookupsOk(d)
  /\ s.err = NoError /\ d.err = NoError
  /\ d.query.kind = "id"
  /\ d.query.id \in DocIds(d.pre[d.model])
  /\ Names(catalog, s, d.model, d.query.id)

C18_CheckAndWriteAreNotAtomic ==
  LET s == ops[1]
      d == ops[2]
  IN BothPassed(s, d)
     => /\ Len(s.io) = 1 /\ Len(d.io) = 2
        /\ Done(s) => (s.applied /\ Stored(store, s.model, s.doc))
        /\ Done(d) => (d.applied /\ d.query.id \notin DocIds(store[d.model]))
        /\ (Done(s) /\ Done(d))
           => SomeDangling(catalog, store, s.model, s.doc.vals)

\* both operations are over: the Post is stored, its author is gone
C18_Witness ==
  LET s == ops[1]
      d == ops[2]
  IN /\ BothPassed(s, d)
     /\ Done(s) /\ Done(d)
     /\ s.model = "Post" /\ d.model = "User"
     /\ s.doc.vals["author"] = Scalar(d.query.id)
     /\ s.applied /\ d.applied
     /\ Stored(store, "Post", s.doc)
     /\ d.query.id \notin DocIds(store["User"])

(***************************************************************************)
(* C19.  Within one intercepted save or update the reference fields are    *)
(* validated one at a time in extractor order.  At most one lookup is      *)
(* outstanding at any time; a lookup, outstanding or answered, is for a    *)
(* field later in extractor order than every lookup before it, and every   *)
(* lookup before it was answered, with a valid reference.  Once a lookup   *)
(* has returned an invalid reference no lookup is issued any more, and the *)
(* operation is aborted: next is given the error and the write is not      *)
(* applied.  Taken together the steps come to what the hook comes to as a  *)
(* whole.                                                                  *)
(***************************************************************************)
\* the position in extractor order of the field a lookup is for
FieldPosition(o, lookup) ==
  LET refFields == getRefFields(PathsOf(catalog, o.model))
  IN CHOOSE k \in DOMAIN refFields : refFields[k].field = lookup.fields[1]

\* the answered lookup found every identifier it asked for
AnsweredValid(o, lookup) ==
  /\ lookup.ok
  /\ ~Dangling(o.pre, lookup.model,
               KeyValue(Source(o), lookup.fields[1]))

C19_FieldsValidatedOneAtATime ==
  LET o == ops[1]
      issued == o.io \o probe.pending
  IN (o.phase \in {"hook", "done"})
     => /\ Len(probe.pending) <= 1
        /\ probe.pending # << >> <=> probe.phase = "await"
        /\ \A i, j \in DOMAIN issued :
              i < j => /\ FieldPosition(o, issued[i]) < FieldPosition(o, issued[j])
                       /\ i \in DOMAIN o.io
                       /\ AnsweredValid(o, issued[i])
        /\ \A i \in DOMAIN issued :
              /\ Len(issued[i].fields) = 1
              /\ issued[i].fields[1] \in DOMAIN Source(o)
        /\ (\E i \in DOMAIN o.io : ~AnsweredValid(o, o.io[i]))
           => /\ Done(o)
              /\ probe.pending = << >>
              /\ ~AnsweredValid(o, o.io[Len(o.io)])
              /\ o.err.type \in {"ReferenceValidation", "Database"}
              /\ o.nexts = 1
              /\ ~o.applied
              /\ store = o.pre
        /\ Done(o)
           => LET whole == IF o.kind = "save"
                           THEN preSave(catalog, o.pre, o.model, o.doc,
                                        probe.failAt)
                           ELSE preUpdate(catalog, o.pre, o.model, o.update,
                                          probe.failAt)
              IN /\ o.err = whole.err
                 /\ o.io = whole.io
                 /\ o.nexts = whole.nexts
                 /\ o.applied <=> Proceeds(whole)

\* the author's lookup was answered valid; the editor's is outstanding
C19_Witness ==
  LET o == ops[1]
  IN /\ o.phase = "hook" /\ o.kind = "save" /\ o.model = "Post"
     /\ probe.phase = "await"
     /\ Len(o.io) = 1 /\ o.io[1].fields = <<"author">>
     /\ Len(probe.pending) = 1 /\ probe.pending[1].fields = <<"editor">>

\* the author's lookup returned invalid: the editor, invalid too, was never
\* looked up
C19_WitnessFailFast ==
  LET o == ops[1]
  IN /\ Done(o) /\ o.kind = "updateMany" /\ o.model = "Post"
     /\ DanglingAt(catalog, o.pre, "Post", o.update.top) = {1, 2}
     /\ Len(o.io) = 1 /\ o.io[1].fields = <<"author">> /\ o.io[1].ok
     /\ o.err.type = "ReferenceValidation"
     /\ ~o.applied

(***************************************************************************)
(* C20.  In the delete hook the referencing models are queried in catalog  *)
(* (modelNames) order, each after all the referencing models before it     *)
(* have answered that they hold no reference.  The scan stops at the first *)
(* model that reports a living reference: the delete is aborted with the   *)
(* error naming that model, and no later model is queried.                 *)
(***************************************************************************)
\* the place of a model in db.modelNames()
CatalogIndex(cat, m) == CHOOSE i \in DOMAIN cat : cat[i].name = m

C20_ReferrersQueriedInCatalogOrder ==
  LET o == TheOp
  IN (/\ Done(o) /\ IsDelete(o) /\ o.hooked
      /\ Matching(o.pre[o.model], o.query) # {}
      /\ o.io[1].ok)
     => LET d == Resolved(o)
            queries == {i \in DOMAIN o.io : o.io[i].call = "aggregate"}
            referrers == Referrers(catalog, o.model)
            Holds(r) == HoldsReference(catalog, o.pre, r, o.model, d.id)
            Before(r) == {q \in referrers :
                            CatalogIndex(catalog, q) < CatalogIndex(catalog, r)}
        IN /\ queries = 2..Len(o.io)
           /\ \A i \in queries :
                 /\ o.io[i].model \in referrers
                 /\ {o.io[j].model : j \in {l \in queries : l < i}}
                      = Before(o.io[i].model)
                 /\ \A j \in queries :
                       j < i => (o.io[j].ok /\ ~Holds(o.io[j].model))
           /\ LookupsOk(o)
              => /\ (\E r \in referrers : Holds(r))
                    => LET last == o.io[Len(o.io)].model
                       IN /\ queries # {}
                          /\ Holds(last)
                          /\ o.err = ReferentialIntegrityError(d.id, last)
                          /\ ~o.applied
                 /\ (\A r \in referrers : ~Holds(r))
                    => /\ {o.io[i].model : i \in queries} = referrers
                       /\ o.err = NoError
                       /\ o.applied

\* Comment and Post both name the User: Comment, first in the catalog, is
\* queried and named; Post is not queried
C20_Witness ==
  LET o == TheOp
  IN /\ Done(o) /\ IsDelete(o) /\ o.hooked /\ o.model = "User"
     /\ Matching(o.pre["User"], o.query) # {}
     /\ HoldsReference(catalog, o.pre, "Comment", "User", Resolved(o).id)
     /\ HoldsReference(catalog, o.pre, "Post", "User", Resolved(o).id)
     /\ Len(o.io) = 2 /\ o.io[2].model = "Comment"
     /\ o.err = ReferentialIntegrityError(Resolved(o).id, "Comment")

\* only a Post names the User: Comment is queried first, then Post
C20_WitnessSecond ==
  LET o == TheOp
  IN /\ Done(o) /\ IsDelete(o) /\ o.hooked /\ o.model = "User"
     /\ Matching(o.pre["User"], o.query) # {}
     /\ Len(o.io) = 3
     /\ o.io[2].model = "Comment" /\ o.io[3].model = "Post"
     /\ o.err = ReferentialIntegrityError(Resolved(o).id, "Post")

(***************************************************************************)
(* C21.  The discovery of a delete on model m goes through every model of  *)
(* the database but m and returns, in the database's order and once each,  *)
(* exactly the models that declare at least one path whose ref is m, each  *)
(* with the list of those paths in schema order.  A model with no such     *)
(* path is left out, and m itself is never among them, not even when it    *)
(* references itself.                                                      *)
(***************************************************************************)
\* the models of the catalog, in its order, that satisfy the test
ModelsWhere(cat, Test(_)) ==
  LET hit == SelectSeq(cat, Test) IN [i \in DOMAIN hit |-> hit[i].name]

ExtractedReferrers(cat, m) ==
  {cat[k].name : k \in {j \in DOMAIN cat :
                           /\ cat[j].name # m
                           /\ \E i \in DOMAIN getRefFields(cat[j].paths) :
                                 getRefFields(cat[j].paths)[i].refTo = m}}

C22_NestedReferenceBlocksDelete ==
  LET o == TheOp
  IN (/\ Done(o) /\ IsDelete(o) /\ o.hooked /\ LookupsOk(o)
      /\ Matching(o.pre[o.model], o.query) # {})
     => LET d == Resolved(o)
        IN (/\ ExtractedReferrers(catalog, o.model) # {}
            /\ Referenced(catalog, o.pre, o.model, d.id))
           => /\ o.err.type = "ReferentialIntegrity"
              /\ ~o.applied
              /\ store = o.pre

(***************************************************************************)
(* C23.  getRefFields(schema) emits one {field, refTo} pair for every path *)
(* that carries a ref option and, for every array path with a nested       *)
(* schema, one pair per nested path that carries a ref option, named after *)
(* the outer array path and targeting the nested path's ref; the pairs     *)
(* follow the schema's order.  A schema without references yields the      *)
(* empty sequence, and the schema is left as it was.                       *)
(***************************************************************************)
\* how many times the pair is to be emitted for the path
Emissions(path, field, refTo) ==
  IF path.field # field THEN 0
  ELSE (IF path.ref = refTo THEN 1 ELSE 0)
       + (IF path.isArray
          THEN Cardinality({k \in DOMAIN path.sub : path.sub[k].ref = refTo})
          ELSE 0)

C23_ExtractorEmitsDeclaredReferences ==
  (probe.phase = "done" /\ probe.call = "getRefFields")
  => LET paths == probe.paths
         refFields == probe.refFields
         Count(field, refTo) ==
           Cardinality({i \in DOMAIN refFields :
                          refFields[i] = RefField(field, refTo)})
     IN /\ \A i \in DOMAIN paths : \A refTo \in SchemaNames :
              Count(paths[i].field, refTo)
                = Emissions(paths[i], paths[i].field, refTo)
        /\ \A i \in DOMAIN refFields :
              /\ refFields[i].refTo \in SchemaNames
              /\ \E k \in DOMAIN paths : paths[k].field = refFields[i].field
        /\ \A i, j \in DOMAIN refFields :
              i < j => PathOfField(paths, refFields[i].field)
                         <= PathOfField(paths, refFields[j].field)
        /\ (\A i \in DOMAIN paths :
               /\ paths[i].ref = ""
               /\ \A k \in DOMAIN paths[i].sub : paths[i].sub[k].ref = "")
           => refFields = << >>
        /\ PathsOf(catalog, probe.model) = paths

\* f is an array that targets A itself and whose nested schema targets B, g
\* targets C: three pairs, the nested one under the name f
C23_Witness ==
  /\ probe.phase = "done" /\ probe.call = "getRefFields"
  /\ probe.model = "A"
  /\ probe.paths[2].isArray /\ Len(probe.paths[2].sub) = 2
  /\ probe.refFields
       = <<RefField("f", "A"), RefField("f", "B"), RefField("g", "C")>>

(***************************************************************************)
(* C24.  In the delete hook, when the store fails findOne or an aggregate, *)
(* the delete is aborted with a database error (the error of the "Database *)
(* error validating ..." kind, wrapping the context and the store's        *)
(* message), and the delete is not applied.                                *)
(***************************************************************************)
C24_DeleteFailureIsDatabaseError ==
  LET o == TheOp
  IN (Done(o) /\ IsDelete(o) /\ o.hooked /\ FailedAt(o) # {})
     => /\ o.err.type = "Database"
        /\ ~o.applied

(***************************************************************************)
(* C24, as the code has it.  In the delete hook, when the store fails      *)
(* findOne or an aggregate, the run ends at that call and the store's own  *)
(* error is handed to next as it is, not wrapped in a database error; the  *)
(* delete is not applied and the store is left as it was.                  *)
(***************************************************************************)
C24_DeleteFailurePassesDriverError ==
  LET o == TheOp
  IN (Done(o) /\ IsDelete(o) /\ o.hooked /\ FailedAt(o) # {})
     => LET failed == o.io[Len(o.io)]
        IN /\ FailedAt(o) = {Len(o.io)}
           /\ o.err = DriverError(failed.model)
           /\ o.err.type = "Driver"
           /\ o.nexts = 1
           /\ ~o.applied
           /\ store = o.pre

\* findOne answered and the aggregate on Comment, the first referencing
\* model, failed
C24_Witness ==
  LET o == TheOp
  IN /\ Done(o) /\ IsDelete(o) /\ o.hooked /\ o.model = "User"
     /\ Len(o.io) = 2 /\ o.io[1].ok /\ ~o.io[2].ok
     /\ o.io[2].call = "aggregate"
     /\ o.err = DriverError("Comment")
     /\ ~o.applied

\* findOne itself failed
C24_WitnessFindOne ==
  LET o == TheOp
  IN /\ Done(o) /\ IsDelete(o) /\ o.hooked
     /\ Len(o.io) = 1 /\ ~o.io[1].ok /\ o.io[1].call = "findOne"
     /\ o.err = DriverError(o.model)
     /\ ~o.applied

(***************************************************************************)
(* C25.  The two implementations of validateReference agree: for every     *)
(* value and every target collection, index.js accepts exactly when        *)
(* index.ts accepts, rejects exactly when it rejects and throws exactly    *)
(* when it throws.                                                         *)
(***************************************************************************)
C25_ImplementationsAgree ==
  (probe.ret # "" /\ probe.retV1 # "") => probe.retV1 = probe.ret

(***************************************************************************)
(* C26.  Every run of a save, update or delete hook, each of its lookups   *)
(* answered or failed by the store, calls next exactly once, whatever the  *)
(* path: no reference fields, no payload, no document found, no            *)
(* referencing model, validation passed, validation failed, lookup failed. *)
(* It is next() when the run found nothing against the operation, which    *)
(* then goes on, and next(error) otherwise, which aborts it.               *)
(***************************************************************************)
C26_ContinuationCalledOnce ==
  LET o == TheOp
  IN (Done(o) /\ o.hooked /\ ~IsManual(o))
     => /\ o.nexts = 1
        /\ o.applied <=> o.err = NoError
        /\ FailedAt(o) # {} => o.err # NoError

\* a delete whose query matches no document: next() after the findOne
C26_Witness ==
  LET o == TheOp
  IN /\ Done(o) /\ IsDelete(o) /\ o.hooked
     /\ Matching(o.pre[o.model], o.query) = {}
     /\ LookupsOk(o)
     /\ o.nexts = 1 /\ o.err = NoError

\* a save whose second lookup the store fails: next(error)
C26_WitnessLookupFailure ==
  LET o == TheOp
  IN /\ Done(o) /\ o.kind = "save" /\ o.hooked
     /\ FailedAt(o) = {2}
     /\ o.nexts = 1 /\ o.err # NoError

\* an update without a payload: next() and no lookup
C26_WitnessNoPayload ==
  LET o == TheOp
  IN /\ Done(o) /\ IsUpdate(o) /\ o.hooked
     /\ ~o.update.present
     /\ o.io = << >> /\ o.nexts = 1 /\ o.err = NoError

(***************************************************************************)
(* C27.  The hooks and the manual API only read the store.  A call of      *)
(* validateReferences or checkReferences leaves the store as it was,       *)
(* whether the references are valid, invalid or the lookup fails; so does  *)
(* an operation its hook aborts (an aborted delete removes no referencing  *)
(* document and clears no reference).  When the operation goes on, the     *)
(* store changes in the operation's own collection only, and a delete      *)
(* leaves the documents it does not remove as they were.                   *)
(***************************************************************************)
C27_HooksAndManualApiOnlyRead ==
  LET o == TheOp
  IN Done(o)
     => /\ IsManual(o) => store = o.pre
        /\ (~IsManual(o) /\ ~o.applied) => store = o.pre
        /\ (~IsManual(o) /\ o.applied)
           => /\ \A m \in NamesOf(catalog) \ {o.model} : store[m] = o.pre[m]
              /\ IsDelete(o)
                 => \A i \in DOMAIN store[o.model] :
                       Stored(o.pre, o.model, store[o.model][i])

\* a delete aborted for a reference: the referencing document is still
\* there, as it was
C27_Witness ==
  LET o == TheOp
  IN /\ Done(o) /\ IsDelete(o) /\ o.hooked /\ o.model = "User"
     /\ o.err.type = "ReferentialIntegrity"
     /\ o.pre["Post"] # << >>
     /\ store = o.pre

\* the manual API reporting an invalid reference
C27_WitnessManual ==
  LET o == TheOp
  IN /\ Done(o) /\ IsManual(o)
     /\ \E i \in DOMAIN o.results : ~o.results[i].isValid
     /\ TotalDocs(store) > 0
     /\ store = o.pre

NoDanglingReference(cat, st) ==
  \A m \in NamesOf(cat) :
     \A i \in DOMAIN st[m] : ~SomeDangling(cat, st, m, st[m][i].vals)

InitIntegrity ==
  /\ catalog = ForumCatalog
  /\ config = ReferenceCheck(NoKeys)
  /\ store \in {st \in Stores(ForumCatalog) :
                  NoDanglingReference(ForumCatalog, st)}
  /\ ops = [p \in Procs |-> Idle(ForumCatalog)]
  /\ scen = NoScen
  /\ probe = NoProbe

\* an update whose payload has no operator key
TopLevelUpdateStep(p) ==
  /\ ops[p].phase = "idle"
  /\ \E m \in NamesOf(catalog) :
        \E q \in UpdateForms,
           update \in {u \in UpdatesOf[catalog][m] : DOMAIN u.set = {}},
           failAt \in FieldFailAts[catalog][m] :
           UpdateOp(p, m, q[1], q[2], update, failAt)

\* a delete whose query matches at most one document
SingleDeleteStep(p) ==
  /\ ops[p].phase = "idle"
  /\ \E m \in NamesOf(catalog) :
        \E q \in DeleteForms, failAt \in DeleteFailAts[catalog] :
           /\ Cardinality(Matching(store[m], q[1])) <= 1
           /\ DeleteOp(p, m, q[1], q[2], failAt)

NextIntegrity ==
  \/ SaveStep(1)
  \/ TopLevelUpdateStep(1)
  \/ SingleDeleteStep(1)
  \/ Return(1)

SpecIntegrity == InitIntegrity /\ [][NextIntegrity]_vars

(***************************************************************************)
(* C29.  Operations running one at a time, the plugin on every model with  *)
(* every hook enabled, every reference a top-level scalar path targeting   *)
(* another model, updates given by top-level field keys, deletes matching  *)
(* at most one document: from a store without dangling references, after   *)
(* any sequence of saves, updates and deletes, every reference field of    *)
(* every stored document that is not null names a document its target      *)
(* collection holds.                                                       *)
(***************************************************************************)
C29_NoDanglingReferenceEver == NoDanglingReference(catalog, store)

\* the delete of a User that a Post names was aborted for it: the Post
\* still names a stored User
C29_Witness ==
  LET o == TheOp
  IN /\ Done(o) /\ IsDelete(o) /\ o.model = "User"
     /\ o.err.type = "ReferentialIntegrity"
     /\ \E i \in DOMAIN store["Post"] :
           /\ store["Post"][i].vals["author"] = Scalar(o.err.id)
           /\ o.err.id \in DocIds(store["User"])

====
